---- MODULE Spec2Model ----
(***************************************************************************)
(* Two peers of the remote-objects library.  Each peer runs an ObjectStore *)
(* (src/src/ObjectStore.ts) on top of a RequestHandler                     *)
(* (src/src/RequestHandler.ts); the two RequestHandlers exchange messages  *)
(* over a channel that may reorder them.                                   *)
(***************************************************************************)
EXTENDS Integers, Sequences, FiniteSets, TLC

(***************************************************************************)
(* Bounds of the model.                                                    *)
(***************************************************************************)
\* user objects per peer: 1..NumObjs (odd ones plain objects, even ones functions)
NumObjs == 2
\* user operations (expose, request, proxy use, close, drop) in one behaviour
MaxOps == 4
\* stand-in for Number.MAX_SAFE_INTEGER, where the id counters wrap
MaxSafeInteger == 6
\* longest path a proxy records
MaxPath == 2
\* nesting of synchronous close notifications followed before giving up
MaxCallDepth == 4

Peers == {"a", "b"}
Other(p) == IF p = "a" THEN "b" ELSE "a"
Names == {"x", "y"}
Keys == {"k"}
Objs == 1..NumObjs

(***************************************************************************)
(* RemoteId = string | number.  A string id has s # "", a numeric id has   *)
(* s = "" and carries the number in n.                                     *)
(***************************************************************************)
StrId(s) == [s |-> s, n |-> 0]
NumId(n) == [s |-> "", n |-> n]
IsString(id) == id.s # ""

(***************************************************************************)
(* Finite maps (Map<K, V>).                                                *)
(***************************************************************************)
EmptyMap == [k \in {} |-> 0]
Has(m, k) == k \in DOMAIN m
Put(m, k, v) == [x \in (DOMAIN m) \cup {k} |-> IF x = k THEN v ELSE m[x]]
Del(m, k) == [x \in (DOMAIN m) \ {k} |-> m[x]]
Range(m) == {m[k] : k \in DOMAIN m}

VARIABLES
  closed,           \* ObjectStore.#closed
  localObjects,     \* ObjectStore.#localObjects: id -> local value
  localObjectsId,   \* ObjectStore.#localObjectsId: local value -> description
  lastRemoteId,     \* ObjectStore.#lastRemoteId
  remoteObjects,    \* ObjectStore.#remoteObjects: id -> WeakRef target
  keepStringIds,    \* ObjectStore.#keepStringIds: id -> proxy
  objectsToClean,   \* ObjectStore.#objectsToClean
  registered,       \* targets registered with ObjectStore.#finalizationReg
  collected,        \* proxies the garbage collector has reclaimed
  finalizable,      \* reclaimed targets whose finalization callback has not run
  held,             \* proxies the user program still references
  nextProxy,        \* serial number of the next proxy or symbol created
  nextObj,          \* identity of the next Error object created
  props,            \* the properties of the peer's own objects: object -> key -> value
  decodes,          \* #cacheValue calls suspended at `await generate()`
  cur,              \* the unbound proxy the user program is building, or NoProxy
  rhClosed,         \* RequestHandler.#closed
  pendingRequests,  \* RequestHandler.#pendingRequests: request id -> continuation
  lastRequestId,    \* RequestHandler.#lastRequestId
  net,              \* messages handed to sendMessage and not yet delivered
  osDisc,           \* times ObjectStore.disconnectedHandler was invoked by the RequestHandler
  rhDisc,           \* times RequestHandler.disconnectedHandler was invoked by the ObjectStore
  mhDisc,           \* times MessageHandler.disconnectedHandler was invoked
  closeSent,        \* close messages each peer has sent
  diverged,         \* a close notification chain exceeded MaxCallDepth
  last,             \* what the most recent step did (operation, outcome)
  firstResolved,    \* name -> proxy the first requestRemoteObject(name) resolved to
  lateBad,          \* names for which a later requestRemoteObject disagreed or sent a request
  written,          \* the set segment each peer evaluated last: root, name, value
  sentAt,           \* GcIdDescription.time: id -> last time the id was sent
  clock,            \* the time: the number of sync rounds issued so far
  lost,             \* the request messages the transport has lost
  doNotSyncGc,      \* ObjectStoreOptions.doNotSyncGc of each peer
  settles,          \* request id -> times res or rej of its promise was called
  requestHandlerSet, \* RequestHandler.#requestHandler is defined
  remoteObjectPrototype, \* ObjectStoreOptions.remoteObjectPrototype of the stores
  shapes,           \* the own keys and the prototype of the owner's objects
  shapeDescriptions, \* the ownKeys, hasKeys and prototype of the cached descriptions
  describedAt,      \* the keys of an object when its description was generated
  ops               \* user operations performed so far

vars == <<closed, localObjects, localObjectsId, lastRemoteId, remoteObjects,
          keepStringIds, objectsToClean, registered, collected, finalizable,
          held, nextProxy, nextObj, props, decodes, cur, rhClosed, pendingRequests,
          lastRequestId, net, osDisc, rhDisc, mhDisc, closeSent, diverged,
          last, firstResolved, lateBad, written, sentAt, clock, lost, doNotSyncGc,
          settles, requestHandlerSet, remoteObjectPrototype, shapes, shapeDescriptions, describedAt, ops>>


(***************************************************************************)
(* Values of a peer's own program.  The objects 1..NumObjs are the user's  *)
(* (created without prototype, the functions without a prototype           *)
(* property); larger identities are Error objects created while requests   *)
(* are served.  The stores are configured with remoteObjectPrototype       *)
(* "none" and remoteError "newError".                                      *)
(***************************************************************************)
Undefined == [t |-> "undefined"]
Prim(v) == [t |-> "prim", v |-> v]
Obj(o) == [t |-> "obj", o |-> o]
Proxy(data) == [t |-> "proxy", data |-> data]

TypeOf(o) == IF o \in Objs /\ o % 2 = 0 THEN "function" ELSE "object"

undefinedDescription == [type |-> "undefined"]
nullDescription == [type |-> "null"]
RemoteData(root, path) == [type |-> "remote", root |-> root, path |-> path]

\* the part of an ObjectStore that encoding reads and writes
LocalTable(p) == [lo |-> localObjects[p], li |-> localObjectsId[p], lastId |-> lastRemoteId[p]]

RECURSIVE nextRemoteId(_, _)
\* #nextRemoteId without the test of line 427: the next number is returned
nextRemoteIdUnchecked(lastId, lo) ==
  LET inc == lastId + 1
  IN IF inc >= MaxSafeInteger THEN -MaxSafeInteger ELSE inc

nextRemoteId(lastId, lo) ==
  LET inc == lastId + 1
      l == IF inc >= MaxSafeInteger THEN -MaxSafeInteger ELSE inc
  IN IF ~Has(lo, NumId(l)) THEN l ELSE nextRemoteId(l, lo)

getObjectDescription(object, id) ==
  [type |-> TypeOf(object), id |-> id, prototype |-> nullDescription]

\* returns the table after the call and the description
cacheDescription(T, value) ==
  IF Has(T.li, value)
  THEN [T |-> T, desc |-> T.li[value]]
  ELSE LET id == nextRemoteId(T.lastId, T.lo)
           description == getObjectDescription(value, NumId(id))
       IN [T |-> [lo |-> Put(T.lo, description.id, value),
                  li |-> Put(T.li, value, description),
                  lastId |-> id],
           desc |-> description]

\* #getValueDescription without the test of line 226: a proxy is described
\* like any other object of the peer
getValueDescriptionOfObject(T, value) ==
  CASE value.t = "prim" -> [T |-> T, desc |-> [type |-> "prim", value |-> value.v]]
    [] value.t = "undefined" -> [T |-> T, desc |-> undefinedDescription]
    [] value.t = "proxy" -> cacheDescription(T, 0)
    [] value.t = "obj" -> cacheDescription(T, value.o)

getValueDescription(T, value) ==
  CASE value.t = "prim" -> [T |-> T, desc |-> [type |-> "prim", value |-> value.v]]
    [] value.t = "undefined" -> [T |-> T, desc |-> undefinedDescription]
    [] value.t = "proxy" -> [T |-> T, desc |-> value.data]
    [] value.t = "obj" -> cacheDescription(T, value.o)

(***************************************************************************)
(* What a step reports in `last`: the peer, the operation and its outcome. *)
(***************************************************************************)
NoProxy == [n |-> 0, id |-> StrId("")]
Did(p, op, outcome) ==
  [peer |-> p, op |-> op, outcome |-> outcome, message |-> "", proxy |-> NoProxy,
   value |-> Undefined, calls |-> <<>>, steps |-> <<>>]
Settled(p, op, outcome, message, proxy) ==
  [peer |-> p, op |-> op, outcome |-> outcome, message |-> message, proxy |-> proxy,
   value |-> Undefined, calls |-> <<>>, steps |-> <<>>]
\* requestHandler has evaluated a path: what the evaluation returned or threw
Served(q, result) ==
  [peer |-> q, op |-> "requestHandler", outcome |-> result.kind,
   message |-> result.message, proxy |-> NoProxy, value |-> result.v,
   calls |-> result.E.calls, steps |-> result.E.steps]
ClosedError == "Connection is already closed."

UserOp == ops < MaxOps /\ ops' = ops + 1

tableVars == <<localObjects, localObjectsId, lastRemoteId>>
cacheVars == <<remoteObjects, keepStringIds, objectsToClean, registered,
               collected, finalizable, held, nextProxy, decodes>>
rhVars == <<rhClosed, pendingRequests, lastRequestId, net, settles>>
closeVars == <<closed, osDisc, rhDisc, mhDisc, closeSent, diverged>>
histVars == <<firstResolved, lateBad, written>>
shapeVars == <<remoteObjectPrototype, shapes, shapeDescriptions, describedAt>>
gcVars == <<sentAt, clock, lost, doNotSyncGc, requestHandlerSet, shapeVars>>

(***************************************************************************)
(* ObjectStore.exposeRemoteObject                                          *)
(***************************************************************************)
\* exposeRemoteObject without the check of line 49: the name is bound again
exposeRemoteObjectRebinds(p, name, object) ==
  /\ UserOp
  /\ IF closed[p]
     THEN /\ last' = Did(p, "exposeRemoteObject", ClosedError)
          /\ UNCHANGED tableVars
     ELSE LET description == getObjectDescription(object, StrId(name))
          IN /\ localObjectsId' = [localObjectsId EXCEPT ![p] = Put(@, object, description)]
             /\ localObjects' = [localObjects EXCEPT ![p] = Put(@, description.id, object)]
             /\ last' = Did(p, "exposeRemoteObject", "ok")
             /\ UNCHANGED lastRemoteId
  /\ UNCHANGED <<gcVars, cacheVars, rhVars, closeVars, histVars, cur, nextObj, props>>

exposeRemoteObject(p, name, object) ==
  /\ UserOp
  /\ IF closed[p]
     THEN /\ last' = Did(p, "exposeRemoteObject", ClosedError)
          /\ UNCHANGED tableVars
     ELSE IF Has(localObjects[p], StrId(name))
     THEN /\ last' = Did(p, "exposeRemoteObject", "already exposed")
          /\ UNCHANGED tableVars
     ELSE LET description == getObjectDescription(object, StrId(name))
          IN /\ localObjectsId' = [localObjectsId EXCEPT ![p] = Put(@, object, description)]
             /\ localObjects' = [localObjects EXCEPT ![p] = Put(@, description.id, object)]
             /\ last' = Did(p, "exposeRemoteObject", "ok")
             /\ UNCHANGED lastRemoteId
  /\ UNCHANGED <<gcVars, cacheVars, rhVars, closeVars, histVars, cur, nextObj, props>>


(***************************************************************************)
(* RequestHandler (src/src/RequestHandler.ts).  A message is a record with *)
(* the receiving peer `to`, the request id `id` and one of the fields      *)
(* `request`, `response`, `errorResponse`.                                 *)
(***************************************************************************)
RequestMessage(to, id, request) == [to |-> to, id |-> id, request |-> request]
ResponseMessage(to, id, response) == [to |-> to, id |-> id, response |-> response]
ErrorResponseMessage(to, id, text) == [to |-> to, id |-> id, errorResponse |-> text]
IsRequest(m) == "request" \in DOMAIN m
IsResponse(m) == "response" \in DOMAIN m
IsErrorResponse(m) == "errorResponse" \in DOMAIN m

CloseRequest == [type |-> "close"]
\* what is waiting for a response: the operation, and the name it was called with
Cont(op, name) == [op |-> op, name |-> name]

\* The promise that request returns: n counts the calls of res and rej, and
\* reason is what the first of them settled it with ("" when it was res).
Unsettled == [n |-> 0, reason |-> ""]
\* the callbacks `success` or `error` of the requests `ids` have run
settle(promises, ids, reason) ==
  [id \in DOMAIN promises |->
     IF id \in ids
     THEN [n |-> promises[id].n + 1,
           reason |-> IF promises[id].n = 0 THEN reason ELSE promises[id].reason]
     ELSE promises[id]]
ConnectionClosed == "Connection was Closed"

\* cleanup of request (lines 119-122); a variant without
\* #pendingRequests.delete(id) is cleanupKeeps
cleanupKeeps(pending, id) == pending
cleanup(pending, id) == Del(pending, id)

\* an allocation that takes the next number without looking at the pending requests
nextRequestIdUnchecked(lastId, pending) ==
  IF lastId + 1 >= MaxSafeInteger THEN -MaxSafeInteger ELSE lastId + 1

RECURSIVE nextRequestId(_, _)
nextRequestId(lastId, pending) ==
  LET inc == lastId + 1
      l == IF inc >= MaxSafeInteger THEN -MaxSafeInteger ELSE inc
  IN IF ~Has(pending, l) THEN l ELSE nextRequestId(l, pending)

(***************************************************************************)
(* The part of one peer that closing reads and writes, as a record K:      *)
(* both closed flags, the pending requests, the messages sent (out), the   *)
(* continuations rejected, and the counts of callbacks invoked.            *)
(***************************************************************************)
CloseState(p) ==
  [closed |-> closed[p], rhClosed |-> rhClosed[p], pending |-> pendingRequests[p],
   lastId |-> lastRequestId[p], out |-> {}, rejected |-> {}, settles |-> settles[p],
   osDisc |-> osDisc[p], rhDisc |-> rhDisc[p], mhDisc |-> mhDisc[p],
   closeSent |-> closeSent[p], diverged |-> diverged[p]]

\* RequestHandler.request: rejects when closed, else registers and sends
RequestK(p, K, request, cont) ==
  IF K.rhClosed
  THEN [K EXCEPT !.rejected = @ \cup {cont}]
  ELSE LET id == nextRequestId(K.lastId, K.pending)
       IN [K EXCEPT !.lastId = id,
                    !.pending = Put(@, id, cont),
                    !.settles = Put(@, id, Unsettled),
                    !.out = @ \cup {RequestMessage(Other(p), id, request)},
                    !.closeSent = IF request = CloseRequest THEN @ + 1 ELSE @]

RECURSIVE ObjectStoreClose(_, _, _), RequestHandlerClose(_, _, _)
\* ObjectStore.close without the test of line 108: a closed store closes again
ObjectStoreCloseAgain(p, K, fuel) ==
  IF fuel = 0 THEN [K EXCEPT !.diverged = TRUE]
  ELSE LET K1 == [K EXCEPT !.closed = TRUE]
           K2 == RequestK(p, K1, CloseRequest, Cont("close", ""))
       IN RequestHandlerClose(p, [K2 EXCEPT !.rhDisc = @ + 1], fuel - 1)

\* ObjectStore.close
ObjectStoreClose(p, K, fuel) ==
  IF fuel = 0 THEN [K EXCEPT !.diverged = TRUE]
  ELSE IF K.closed THEN K
  ELSE LET K1 == [K EXCEPT !.closed = TRUE]
           K2 == RequestK(p, K1, CloseRequest, Cont("close", ""))
       IN RequestHandlerClose(p, [K2 EXCEPT !.rhDisc = @ + 1], fuel - 1)

\* RequestHandler.close without the loop of lines 156-158: the pending
\* requests are dropped and none is rejected
RequestHandlerCloseSilent(p, K, fuel) ==
  IF fuel = 0 THEN [K EXCEPT !.diverged = TRUE]
  ELSE IF K.rhClosed THEN K
  ELSE LET K1 == [K EXCEPT !.rhClosed = TRUE, !.pending = EmptyMap]
           K2 == ObjectStoreClose(p, [K1 EXCEPT !.osDisc = @ + 1], fuel - 1)
       IN [K2 EXCEPT !.mhDisc = @ + 1]

\* RequestHandler.close
RequestHandlerClose(p, K, fuel) ==
  IF fuel = 0 THEN [K EXCEPT !.diverged = TRUE]
  ELSE IF K.rhClosed THEN K
  ELSE LET K1 == [K EXCEPT !.rhClosed = TRUE,
                           !.rejected = @ \cup Range(K.pending),
                           !.settles = settle(@, DOMAIN K.pending, ConnectionClosed),
                           !.pending = EmptyMap]
           K2 == ObjectStoreClose(p, [K1 EXCEPT !.osDisc = @ + 1], fuel - 1)
       IN [K2 EXCEPT !.mhDisc = @ + 1]

\* the variables of peer p take the values of K; the messages sent join the channel
ApplyClose(p, K, channel) ==
  /\ closed' = [closed EXCEPT ![p] = K.closed]
  /\ rhClosed' = [rhClosed EXCEPT ![p] = K.rhClosed]
  /\ pendingRequests' = [pendingRequests EXCEPT ![p] = K.pending]
  /\ lastRequestId' = [lastRequestId EXCEPT ![p] = K.lastId]
  /\ settles' = [settles EXCEPT ![p] = K.settles]
  /\ net' = channel \cup K.out
  /\ osDisc' = [osDisc EXCEPT ![p] = K.osDisc]
  /\ rhDisc' = [rhDisc EXCEPT ![p] = K.rhDisc]
  /\ mhDisc' = [mhDisc EXCEPT ![p] = K.mhDisc]
  /\ closeSent' = [closeSent EXCEPT ![p] = K.closeSent]
  /\ diverged' = [diverged EXCEPT ![p] = K.diverged]

userVars == <<tableVars, cacheVars, histVars, gcVars, cur, nextObj, props>>

\* ObjectStore.close called by the user program
close(p) ==
  /\ UserOp
  /\ ApplyClose(p, ObjectStoreClose(p, CloseState(p), MaxCallDepth), net)
  /\ last' = Did(p, "close", "ok")
  /\ UNCHANGED userVars

\* ObjectStore.disconnectedHandler called by the user program
disconnectedHandler(p) ==
  /\ UserOp
  /\ ApplyClose(p, ObjectStoreClose(p, CloseState(p), MaxCallDepth), net)
  /\ last' = Did(p, "disconnectedHandler", "ok")
  /\ UNCHANGED userVars

\* RequestHandler.close called by the user program
RequestHandler_close(p) ==
  /\ UserOp
  /\ ApplyClose(p, RequestHandlerClose(p, CloseState(p), MaxCallDepth), net)
  /\ last' = Did(p, "RequestHandler.close", "ok")
  /\ UNCHANGED userVars

\* RequestHandler.disconnectedHandler called by the message channel
RequestHandler_disconnectedHandler(p) ==
  /\ UserOp
  /\ ApplyClose(p, RequestHandlerClose(p, CloseState(p), MaxCallDepth), net)
  /\ last' = Did(p, "RequestHandler.disconnectedHandler", "ok")
  /\ UNCHANGED userVars


(***************************************************************************)
(* Path evaluation on the owner (ObjectStore.#resolveRemoteValue).  E is   *)
(* the part of the peer the evaluation reads and writes: its objects'      *)
(* properties and the identity of the next object created.  What a user    *)
(* function does when called is an input: oracle is the outcome of every   *)
(* call or construction made while one request is served.                  *)
(***************************************************************************)
GetSegment(name) == [type |-> "get", name |-> name]
SetSegment(name, value) == [type |-> "set", name |-> name, value |-> value]
CallSegment(args) == [type |-> "call", args |-> args]
NewSegment(args) == [type |-> "new", args |-> args]

\* appendProxyPath without the tests of lines 452 and 453: a set segment is
\* appended to any path
appendProxyPathUnchecked(data, segment) ==
  IF segment.type = "set"
  THEN LET n == Len(data.path) IN
       IF n = 0 \/ data.path[n].type # "get"
       THEN [threw |-> FALSE, data |-> RemoteData(data.root, Append(data.path, segment))]
       ELSE [threw |-> FALSE,
             data |-> RemoteData(data.root,
                        Append(SubSeq(data.path, 1, n - 1),
                               SetSegment(data.path[n].name, segment.value)))]
  ELSE [threw |-> FALSE, data |-> RemoteData(data.root, Append(data.path, segment))]

\* appendProxyPath without the slice of line 454: the set segment follows the get
appendProxyPathKeepsGet(data, segment) ==
  IF segment.type = "set"
  THEN LET n == Len(data.path) IN
       IF n = 0 \/ data.path[n].type # "get"
       THEN [threw |-> TRUE, data |-> data]
       ELSE [threw |-> FALSE,
             data |-> RemoteData(data.root,
                        Append(data.path, SetSegment(data.path[n].name, segment.value)))]
  ELSE [threw |-> FALSE, data |-> RemoteData(data.root, Append(data.path, segment))]

appendProxyPath(data, segment) ==
  IF segment.type = "set"
  THEN LET n == Len(data.path) IN
       IF n = 0 \/ data.path[n].type # "get"
       THEN [threw |-> TRUE, data |-> data]
       ELSE [threw |-> FALSE,
             data |-> RemoteData(data.root,
                        Append(SubSeq(data.path, 1, n - 1),
                               SetSegment(data.path[n].name, segment.value)))]
  ELSE [threw |-> FALSE, data |-> RemoteData(data.root, Append(data.path, segment))]

\* the descriptions of a list of argument values, and the table after describing them
RECURSIVE describeArgs(_, _)
describeArgs(T, args) ==
  IF args = <<>> THEN [T |-> T, descs |-> <<>>]
  ELSE LET d == getValueDescription(T, Head(args))
           rest == describeArgs(d.T, Tail(args))
       IN [T |-> rest.T, descs |-> <<d.desc>> \o rest.descs]

Outcomes ==
  {[k |-> "return", v |-> Undefined], [k |-> "return", v |-> Obj(1)],
   [k |-> "returnThis", v |-> Undefined],
   [k |-> "throw", v |-> Prim(0)], [k |-> "throw", v |-> Obj(1)],
   [k |-> "throwError", v |-> Undefined]}

GetProp(H, value, name) ==
  IF value.t = "obj" /\ Has(H, value.o) /\ Has(H[value.o], name)
  THEN H[value.o][name] ELSE Undefined
\* the assignment of line 303 left out
SetPropSkipped(H, o, name, v) == H
SetProp(H, o, name, v) ==
  Put(H, o, Put(IF Has(H, o) THEN H[o] ELSE EmptyMap, name, v))
IsFunction(value) == value.t = "obj" /\ TypeOf(value.o) = "function"

\* decoding of a description that carries no id (ObjectStore.#createValue)
createPrimitive(description) ==
  IF description.type = "prim" THEN Prim(description.value) ELSE Undefined

Returned(v, E) == [kind |-> "value", v |-> v, isError |-> FALSE, message |-> "", E |-> E]
Thrown(v, E) == [kind |-> "throw", v |-> v, isError |-> FALSE, message |-> "", E |-> E]
\* a new Error object is thrown
ThrownError(message, E) ==
  [kind |-> "throw", v |-> Obj(E.nextObj), isError |-> TRUE, message |-> message,
   E |-> [E EXCEPT !.nextObj = @ + 1]]
\* the evaluation awaits an unbound proxy: the request for `data` goes to the
\* other peer, and the walk goes on at segment `next` with the answer
Awaiting(data, next, parent, E) ==
  [kind |-> "await", v |-> Undefined, isError |-> FALSE, message |-> "", E |-> E,
   data |-> data, next |-> next, parent |-> parent]

\* the proxy that #createRemoteObject returns for a description: x is its
\* entry in the Remote Table
BoundProxy(x, type) ==
  [t |-> "proxy", data |-> RemoteData(x.id, <<>>), n |-> x.n, type |-> type]

\* #cleanupObject without line 186: the id is not remembered
cleanupObjectUnqueued(C, id) ==
  IF IsString(id) THEN C
  ELSE [ro |-> Del(C.ro, id), toClean |-> C.toClean]

\* ObjectStore.#cleanupObject on the Remote Table C
cleanupObject(C, id) ==
  IF IsString(id) THEN C
  ELSE [ro |-> Del(C.ro, id), toClean |-> C.toClean \cup {id}]

\* #cacheValue with #createRemoteObject as generate, while a request is served
cacheValueNow(E, id) ==
  IF Has(E.ro, id) /\ E.ro[id] \notin E.collected
  THEN [E |-> E, x |-> E.ro[id]]
  ELSE LET C == IF Has(E.ro, id)
                THEN cleanupObject([ro |-> E.ro, toClean |-> E.toClean], id)
                ELSE [ro |-> E.ro, toClean |-> E.toClean]
           x == [n |-> E.nextProxy, id |-> id]
       IN [E |-> [E EXCEPT !.ro = Put(C.ro, id, x),
                           !.toClean = C.toClean,
                           !.nextProxy = @ + 1,
                           !.keep = IF IsString(id) THEN Put(@, id, x) ELSE @,
                           !.registered = IF IsString(id) THEN @ ELSE @ \cup {x}],
           x |-> x]

\* what the user function called with the callback does with it: cb(1)
CallbackCall == CallSegment(<<[type |-> "prim", value |-> 1]>>)

RECURSIVE walk(_, _, _, _, _, _), resolveRemoteValue(_, _, _, _)

\* ObjectStore.#createValue of a description that arrived in a request
createValueIn(description, E, oracle) ==
  CASE description.type = "prim" -> Returned(Prim(description.value), E)
    [] description.type \in {"undefined", "null"} -> Returned(Undefined, E)
    [] description.type = "remote" -> resolveRemoteValue(E.T.lo, description, E, oracle)
    [] description.type \in {"object", "function", "symbol"} ->
         LET c == cacheValueNow(E, description.id)
         IN Returned(BoundProxy(c.x, description.type), c.E)

\* Promise.all(segment.args.map((v) => this.#createValue(v))): every argument
\* is decoded; the first that fails decides the outcome
RECURSIVE createValues(_, _, _)
createValues(descriptions, E, oracle) ==
  IF descriptions = <<>> THEN [kind |-> "value", vs |-> <<>>, E |-> E, failed |-> Returned(Undefined, E)]
  ELSE LET first == createValueIn(Head(descriptions), E, oracle)
           rest == createValues(Tail(descriptions), first.E, oracle)
       IN IF first.kind # "value"
          THEN [kind |-> "throw", vs |-> <<>>, E |-> rest.E, failed |-> [first EXCEPT !.E = rest.E]]
          ELSE IF rest.kind # "value" THEN rest
          ELSE [kind |-> "value", vs |-> <<first.v>> \o rest.vs, E |-> rest.E,
                failed |-> rest.failed]

IsProxy(value) == value.t = "proxy"

\* a segment of the path was evaluated on a value of the peer: the segment's
\* place in the path, the value it was applied to, for a call the receiver
\* the function was called with, and what the user function returned
Step(i, segment, value, parent) ==
  [at |-> i, type |-> segment.type, on |-> value,
   this |-> IF segment.type = "call" THEN parent ELSE Undefined,
   produced |-> Undefined]
\* the user function called last has returned v
Produced(E, v) == [E EXCEPT !.steps[Len(E.steps)].produced = v]

\* `parent` when it is assigned only by get segments (without lines 304, 309
\* and 312)
retainedParentKept(segment, parent, value) ==
  IF segment.type = "get" THEN value ELSE parent
\* `parent` after a segment (lines 299, 304, 309 and 312)
retainedParent(segment, parent, value) ==
  IF segment.type = "get" THEN value ELSE Undefined

\* value.call(parent, ...args) and new value(...args) on a proxy go through its
\* traps: `call` is read from the proxy and applied, `new` is the construct
\* trap; the proxy that results is awaited
invokeProxy(i, parent, value, segment, args, E) ==
  LET d == describeArgs(E.T, IF segment.type = "call" THEN <<parent>> \o args ELSE args)
      E1 == [E EXCEPT !.T = d.T]
      data == IF segment.type = "call"
              THEN appendProxyPath(appendProxyPath(value.data, GetSegment("call")).data,
                                   CallSegment(d.descs)).data
              ELSE appendProxyPath(value.data, NewSegment(d.descs)).data
  IN Awaiting(data, i + 1, Undefined, E1)

\* the user function is called (or constructed) with the decoded arguments
invoke(path, i, parent, segment, args, E, oracle) ==
  LET oc == oracle IN
  LET kept == retainedParent(segment, parent, Undefined) IN
  CASE oc.k = "return" -> walk(path, i + 1, kept, oc.v, Produced(E, oc.v), oracle)
    [] oc.k = "returnThis" ->
         IF segment.type = "call"
         THEN walk(path, i + 1, kept, parent, Produced(E, parent), oracle)
         ELSE walk(path, i + 1, kept, Obj(E.nextObj),
                   [Produced(E, Obj(E.nextObj)) EXCEPT !.nextObj = @ + 1], oracle)
    [] oc.k = "returnArg" ->
         LET v == IF args = <<>> THEN Undefined ELSE args[1]
         IN walk(path, i + 1, kept, v, Produced(E, v), oracle)
    [] oc.k = "callArg" ->
         IF args # <<>> /\ IsProxy(args[1]) /\ args[1].type = "function"
         THEN Awaiting(appendProxyPath(args[1].data, CallbackCall).data, i + 1, Undefined, E)
         ELSE ThrownError("TypeError", E)
    [] oc.k = "throw" -> Thrown(oc.v, E)
    [] oc.k = "throwError" -> ThrownError("boom", E)

walk(path, i, parent, value, E, oracle) ==
  IF i > Len(path) THEN Returned(value, E)
  ELSE LET segment == path[i] IN
    CASE segment.type = "get" ->
           IF value.t = "undefined" THEN ThrownError("TypeError", E)
           ELSE IF IsProxy(value)
           THEN Awaiting(appendProxyPath(value.data, GetSegment(segment.name)).data,
                         i + 1, value, E)
           ELSE walk(path, i + 1, retainedParent(segment, parent, value),
                     GetProp(E.props, value, segment.name),
                     [E EXCEPT !.steps = Append(@, Step(i, segment, value, parent))],
                     oracle)
      [] segment.type = "set" ->
           LET r == createValueIn(segment.value, E, oracle) IN
           IF r.kind # "value" THEN r
           ELSE IF value.t # "obj" THEN ThrownError("TypeError", r.E)
           ELSE walk(path, i + 1, retainedParent(segment, parent, value), Undefined,
                     [r.E EXCEPT !.props = SetProp(@, value.o, segment.name, r.v),
                                 !.steps = Append(@, Step(i, segment, value, parent))],
                     oracle)
      [] segment.type \in {"call", "new"} ->
           IF value.t = "undefined" /\ segment.type = "call" THEN ThrownError("TypeError", E)
           ELSE LET a == createValues(segment.args, E, oracle) IN
             IF a.kind # "value" THEN a.failed
             ELSE IF IsProxy(value) THEN invokeProxy(i, parent, value, segment, a.vs, a.E)
             ELSE IF ~IsFunction(value) THEN ThrownError("TypeError", a.E)
             ELSE invoke(path, i, parent, segment, a.vs,
                         [a.E EXCEPT !.calls = Append(@, a.vs),
                                     !.steps = Append(@, Step(i, segment, value, parent))],
                         oracle)

\* #resolveRemoteValue returning root instead of value at line 317
resolveRemoteValueReturnsRoot(lo, description, E, oracle) ==
  IF ~Has(lo, description.root)
  THEN ThrownError("unknown", E)
  ELSE LET r == walk(description.path, 1, Undefined, Obj(lo[description.root]), E, oracle)
       IN IF r.kind = "value" THEN [r EXCEPT !.v = Obj(lo[description.root])] ELSE r

\* #resolveRemoteValue without the test of line 293: an unknown root is undefined
resolveRemoteValueUnchecked(lo, description, E, oracle) ==
  IF ~Has(lo, description.root)
  THEN Returned(Undefined, E)
  ELSE walk(description.path, 1, Undefined, Obj(lo[description.root]), E, oracle)

resolveRemoteValue(lo, description, E, oracle) ==
  IF ~Has(lo, description.root)
  THEN ThrownError("unknown", E)
  ELSE walk(description.path, 1, Undefined, Obj(lo[description.root]), E, oracle)

\* ObjectStore.#describePromiseResult: the table after the call and the description
ErrorDescription(value, name, message) ==
  [type |-> "error", value |-> value, name |-> name, message |-> message]
\* #describePromiseResult describing the thrown value as undefined
describePromiseResultWithoutValue(T, result) ==
  LET d == getValueDescription(T, result.v) IN
  IF result.kind = "value" THEN d
  ELSE [T |-> T, desc |-> ErrorDescription(undefinedDescription, "", "")]

describePromiseResult(T, result) ==
  LET d == getValueDescription(T, result.v) IN
  IF result.kind = "value" THEN d
  ELSE IF result.isError
  THEN [T |-> d.T, desc |-> ErrorDescription(d.desc, "Error", result.message)]
  ELSE [T |-> d.T, desc |-> ErrorDescription(d.desc, "", "")]


(***************************************************************************)
(* ObjectStore.requestHandler serving `request` on peer q.  When it is     *)
(* called by the RequestHandler for the message with id `id`, the result   *)
(* goes back as a message; called directly, it goes to the caller.         *)
(***************************************************************************)
EmptyString == [type |-> "prim", value |-> 0]
Responded(q, id, direct, response) ==
  IF direct THEN {} ELSE {ResponseMessage(Other(q), id, response)}
Rejected(q, id, direct, error) ==
  IF direct THEN {}
  ELSE {ErrorResponseMessage(Other(q), id, error)}

\* what a user function does with an argument that is not a primitive:
\* it returns it, or it calls it and returns what the call returns
ArgOutcomes == {[k |-> "returnArg", v |-> Undefined], [k |-> "callArg", v |-> Undefined]}
\* a user function that returns a function, for a path that calls the result
ChainOutcomes == {[k |-> "return", v |-> Obj(2)]}
Calls(path) == {i \in DOMAIN path : path[i].type \in {"call", "new"}}
PassesReference(path) ==
  \E i \in Calls(path) : \E j \in DOMAIN path[i].args : path[i].args[j].type # "prim"

\* the outcomes of user functions that one request can observe
Oracles(request) ==
  IF Calls(request.path) = {} THEN {[k |-> "return", v |-> Undefined]}
  ELSE IF PassesReference(request.path) THEN Outcomes \cup ArgOutcomes
  ELSE IF Cardinality(Calls(request.path)) > 1 THEN Outcomes \cup ChainOutcomes
  ELSE Outcomes

\* the set segment that ends the path of a request, when it was evaluated
NoWrite == [root |-> StrId(""), name |-> "", value |-> undefinedDescription]
Write(request, result) ==
  LET n == Len(request.path) IN
  IF n > 0 /\ request.path[n].type = "set" /\ result.kind = "value"
  THEN [root |-> request.root, name |-> request.path[n].name,
        value |-> request.path[n].value]
  ELSE NoWrite

\* E when peer q starts or resumes serving a request
Evaluation(q) ==
  [props |-> props[q], nextObj |-> nextObj[q], T |-> LocalTable(q),
   ro |-> remoteObjects[q], toClean |-> objectsToClean[q], keep |-> keepStringIds[q],
   registered |-> registered[q], collected |-> collected[q],
   nextProxy |-> nextProxy[q], calls |-> <<>>, steps |-> <<>>]

\* the variables of peer q that serving a request leaves alone
servingVars == <<closed, rhClosed, osDisc, rhDisc, mhDisc, closeSent, diverged>>
evalVars == <<tableVars, props, nextObj, remoteObjects, objectsToClean, keepStringIds,
              registered, nextProxy>>

\* the variables of peer q take the values the evaluation left in E and T
Commit(q, E, T) ==
  /\ localObjects' = [localObjects EXCEPT ![q] = T.lo]
  /\ localObjectsId' = [localObjectsId EXCEPT ![q] = T.li]
  /\ lastRemoteId' = [lastRemoteId EXCEPT ![q] = T.lastId]
  /\ props' = [props EXCEPT ![q] = E.props]
  /\ nextObj' = [nextObj EXCEPT ![q] = E.nextObj]
  /\ remoteObjects' = [remoteObjects EXCEPT ![q] = E.ro]
  /\ objectsToClean' = [objectsToClean EXCEPT ![q] = E.toClean]
  /\ keepStringIds' = [keepStringIds EXCEPT ![q] = E.keep]
  /\ registered' = [registered EXCEPT ![q] = E.registered]
  /\ nextProxy' = [nextProxy EXCEPT ![q] = E.nextProxy]

\* the continuation of a request the evaluation on q awaits: the request it
\* serves (id, direct, its description) and where its walk goes on
Callback(id, direct, request, result) ==
  [op |-> "callback", name |-> "", id |-> id, direct |-> direct, request |-> request,
   next |-> result.next, parent |-> result.parent]

\* #describePromiseResult(#resolveRemoteValue(request)) has settled with
\* `result`, or awaits the other peer; pending is the map of requests of q
Finish(q, request, id, direct, channel, pending, promises, result) ==
  IF result.kind = "await" /\ ~rhClosed[q]
  THEN LET id2 == nextRequestId(lastRequestId[q], pending)
       IN /\ lastRequestId' = [lastRequestId EXCEPT ![q] = id2]
          /\ pendingRequests' = [pendingRequests EXCEPT
                                   ![q] = Put(pending, id2, Callback(id, direct, request, result))]
          /\ settles' = [settles EXCEPT ![q] = Put(promises, id2, Unsettled)]
          /\ net' = channel \cup {RequestMessage(Other(q), id2, result.data)}
          /\ Commit(q, result.E, result.E.T)
          /\ last' = [Did(q, "requestHandler", "await") EXCEPT !.calls = result.E.calls,
                                                                !.steps = result.E.steps]
          /\ UNCHANGED written
  ELSE LET settled == IF result.kind = "await" THEN ThrownError(ClosedError, result.E)
                      ELSE result
           d == describePromiseResult(settled.E.T, settled)
       IN /\ net' = channel \cup Responded(q, id, direct, d.desc)
          /\ Commit(q, settled.E, d.T)
          /\ last' = Served(q, settled)
          /\ written' = IF Write(request, settled) = NoWrite THEN written
                        ELSE [written EXCEPT ![q] = Write(request, settled)]
          /\ pendingRequests' = [pendingRequests EXCEPT ![q] = pending]
          /\ settles' = [settles EXCEPT ![q] = promises]
          /\ UNCHANGED lastRequestId

(***************************************************************************)
(* Garbage collector synchronisation (SyncGcRequest, SyncGcResponse and    *)
(* GcIdDescription of src/src/types.ts).  The time is the number of sync   *)
(* rounds issued so far; a sync request is recorded with the time it was   *)
(* issued at, which is not a field of the message on the wire.             *)
(***************************************************************************)
MaxRounds == 1

\* the numeric ids of its sender's Local Table that a description refers to
DescribedIds(description) ==
  IF description.type \in {"object", "function"} /\ ~IsString(description.id)
  THEN {description.id} ELSE {}
SegmentIds(segment) ==
  IF segment.type = "set" THEN DescribedIds(segment.value)
  ELSE IF segment.type \in {"call", "new"}
  THEN UNION {DescribedIds(segment.args[j]) : j \in DOMAIN segment.args}
  ELSE {}
\* the ids of its sender's own values that the message m carries
SentIn(m) ==
  IF IsRequest(m)
  THEN IF m.request.type = "remote"
       THEN UNION {SegmentIds(m.request.path[k]) : k \in DOMAIN m.request.path}
       ELSE {}
  ELSE IF IsResponse(m)
  THEN IF m.response.type = "error" THEN DescribedIds(m.response.value)
       ELSE DescribedIds(m.response)
  ELSE {}

\* the last time q sent the id, 0 when it never did
LastSent(q, id) == IF Has(sentAt[q], id) THEN sentAt[q][id] ELSE 0

\* the ids in the messages q sends in this step get the time of the step
markSent(q) ==
  LET ids == UNION {SentIn(m) : m \in {n \in net' \ net : n.to = Other(q)}}
  IN /\ sentAt' = [sentAt EXCEPT ![q] =
                     [id \in DOMAIN @ \cup ids |-> IF id \in ids THEN clock ELSE @[id]]]
     /\ UNCHANGED <<clock, lost, doNotSyncGc, requestHandlerSet, shapeVars>>

SyncGcRequest(deletedItems, newItems, at) ==
  [type |-> "syncGcRequest", deletedItems |-> deletedItems, newItems |-> newItems,
   at |-> at]
SyncGcResponse(deletedItems, unknownNewItems) ==
  [type |-> "syncGcResponse", deletedItems |-> deletedItems,
   unknownNewItems |-> unknownNewItems]

\* the listed ids that the owner q releases: those it has not sent again
\* since the request was issued (a variant that releases every listed id
\* it holds is releasedWhenListed)
releasedWhenListed(q, request) ==
  {id \in request.deletedItems : Has(localObjects[q], id)}
\* a variant that also releases the ids sent in the round of the request
releasedUpToIssue(q, request) ==
  {id \in request.deletedItems :
     Has(localObjects[q], id) /\ LastSent(q, id) <= request.at}
\* a variant that releases every numeric id the request does not list as new
releasedUnlessNew(q, request) ==
  {id \in DOMAIN localObjects[q] : ~IsString(id) /\ id \notin request.newItems}
released(q, request) ==
  {id \in request.deletedItems :
     Has(localObjects[q], id) /\ LastSent(q, id) < request.at}

\* the owner q serves a syncGcRequest: it releases listed ids and answers
\* with the ids it released and the new ids it does not know
syncGcRequestHandler(q, request, id, direct, channel) ==
  LET deletedItems == released(q, request)
      lo == [i \in DOMAIN localObjects[q] \ deletedItems |-> localObjects[q][i]]
      unknownNewItems == {i \in request.newItems : ~Has(lo, i)}
  IN /\ localObjects' = [localObjects EXCEPT ![q] = lo]
     /\ localObjectsId' = [localObjectsId EXCEPT ![q] =
           [object \in {o \in DOMAIN @ : @[o].id \notin deletedItems} |-> @[object]]]
     /\ sentAt' = [sentAt EXCEPT ![q] = [i \in DOMAIN @ \ deletedItems |-> @[i]]]
     /\ net' = channel \cup Responded(q, id, direct,
                                      SyncGcResponse(deletedItems, unknownNewItems))
     /\ last' = Did(q, "requestHandler", "syncGc")
     /\ UNCHANGED <<servingVars, pendingRequests, lastRequestId, settles, lastRemoteId, props,
                    nextObj, remoteObjects, objectsToClean, keepStringIds, registered,
                    nextProxy, written, clock, lost, doNotSyncGc, requestHandlerSet, shapeVars>>

\* requestHandler answering a close request without closing the store
requestHandlerStaysOpen(q, request, id, direct, channel) ==
  /\ request.type = "close"
  /\ net' = channel \cup Responded(q, id, direct, EmptyString)
  /\ last' = Did(q, "requestHandler", "close")
  /\ UNCHANGED <<gcVars, servingVars, pendingRequests, lastRequestId, settles, evalVars,
                      written>>

\* a request that is no message of an ObjectStore (lines 123, 124 and 128)
Malformed == [type |-> "malformed"]
NotAMessage == "request is not a message from Remote ObjectStore"

requestHandler(q, request, id, direct, channel) ==
  IF closed[q]
  THEN /\ net' = channel \cup Rejected(q, id, direct, ClosedError)
       /\ last' = Did(q, "requestHandler", ClosedError)
       /\ UNCHANGED <<gcVars, servingVars, pendingRequests, lastRequestId, settles, evalVars,
                      written>>
  ELSE IF request.type = "close"
  THEN /\ ApplyClose(q, ObjectStoreClose(q, CloseState(q), MaxCallDepth),
                     channel \cup Responded(q, id, direct, EmptyString))
       /\ last' = Did(q, "requestHandler", "close")
       /\ UNCHANGED <<gcVars, evalVars, written>>
  ELSE IF request.type = "malformed"
  THEN /\ net' = channel \cup Rejected(q, id, direct, NotAMessage)
       /\ last' = Did(q, "requestHandler", NotAMessage)
       /\ UNCHANGED <<gcVars, servingVars, pendingRequests, lastRequestId, settles, evalVars,
                      written>>
  ELSE IF request.type = "syncGcRequest"
  THEN syncGcRequestHandler(q, request, id, direct, channel)
  ELSE \E oracle \in Oracles(request) :
       /\ Finish(q, request, id, direct, channel, pendingRequests[q], settles[q],
                 resolveRemoteValue(localObjects[q], request, Evaluation(q), oracle))
       /\ UNCHANGED servingVars
       /\ markSent(q)

\* a RequestHandler that serves no request while a request of its own is pending
handleRequestWhenIdle(m) ==
  /\ m \in net /\ IsRequest(m)
  /\ pendingRequests[m.to] = EmptyMap
  /\ requestHandler(m.to, m.request, m.id, FALSE, net \ {m})
  /\ UNCHANGED <<collected, finalizable, held, decodes, firstResolved, lateBad, cur, ops>>

\* RequestHandler.#handleRequest: a request message is delivered to its receiver
EmittedClosed == "Connection is already closed"
NoHandler == "Remote has no requestHandler set"
EmittedNoHandler == "requestHandler is not set"
\* #handleRequest closing the RequestHandler when its requestHandler fails
handleRequestCloses(m) ==
  /\ m \in net /\ IsRequest(m)
  /\ IF rhClosed[m.to]
     THEN /\ net' = net \ {m}
          /\ last' = Settled(m.to, "newMessage", "emitError", EmittedClosed, NoProxy)
          /\ UNCHANGED <<gcVars, servingVars, pendingRequests, lastRequestId, settles, evalVars,
                      written>>
     ELSE IF ~requestHandlerSet[m.to] \/ m.request.type = "malformed"
     THEN /\ net' = (net \ {m}) \cup
                      {ErrorResponseMessage(Other(m.to), m.id,
                         IF requestHandlerSet[m.to] THEN NotAMessage ELSE NoHandler)}
          /\ rhClosed' = [rhClosed EXCEPT ![m.to] = TRUE]
          /\ last' = Settled(m.to, "newMessage", "emitError", EmittedNoHandler, NoProxy)
          /\ UNCHANGED <<gcVars, closed, osDisc, rhDisc, mhDisc, closeSent, diverged,
                         pendingRequests, lastRequestId, settles, evalVars, written>>
     ELSE requestHandler(m.to, m.request, m.id, FALSE, net \ {m})
  /\ UNCHANGED <<collected, finalizable, held, decodes, firstResolved, lateBad, cur, ops>>

handleRequest(m) ==
  /\ m \in net /\ IsRequest(m)
  /\ IF rhClosed[m.to]
     THEN /\ net' = net \ {m}
          /\ last' = Settled(m.to, "newMessage", "emitError", EmittedClosed, NoProxy)
          /\ UNCHANGED <<gcVars, servingVars, pendingRequests, lastRequestId, settles, evalVars,
                      written>>
     ELSE IF ~requestHandlerSet[m.to]
     THEN /\ net' = (net \ {m}) \cup {ErrorResponseMessage(Other(m.to), m.id, NoHandler)}
          /\ last' = Settled(m.to, "newMessage", "emitError", EmittedNoHandler, NoProxy)
          /\ UNCHANGED <<gcVars, servingVars, pendingRequests, lastRequestId, settles, evalVars,
                      written>>
     ELSE requestHandler(m.to, m.request, m.id, FALSE, net \ {m})
  /\ UNCHANGED <<collected, finalizable, held, decodes, firstResolved, lateBad, cur, ops>>

\* ObjectStore.requestHandler called by the user program (a transport without
\* a RequestHandler object calls it for every request it receives)
DirectRequests == {CloseRequest, RemoteData(StrId("x"), <<>>)}
requestHandlerCall(p, request) ==
  /\ UserOp
  /\ requestHandler(p, request, 0, TRUE, net)
  /\ UNCHANGED <<collected, finalizable, held, decodes, firstResolved, lateBad, cur>>

(***************************************************************************)
(* The Remote Table (ObjectStore.#cacheValue, #cleanupObject).  A proxy or *)
(* symbol created by decoding is the record of its serial number and id.   *)
(***************************************************************************)
RemoteTable(p) == [ro |-> remoteObjects[p], toClean |-> objectsToClean[p]]

\* WeakRef.deref yields the target until the collector has reclaimed it
IsCached(p, id) == Has(remoteObjects[p], id) /\ remoteObjects[p][id] \notin collected[p]

\* #cacheValue up to `await generate()`, when the id is not cached
cacheValueMiss(p, id) ==
  IF Has(remoteObjects[p], id) THEN cleanupObject(RemoteTable(p), id) ELSE RemoteTable(p)

NoError == [thrown |-> FALSE, name |-> "", message |-> ""]
Task(p, description, cont, err, rid) ==
  [peer |-> p, id |-> description.id, type |-> description.type, cont |-> cont,
   err |-> err, rid |-> rid]

\* the operation that awaited the decoded value settles
Complete(p, cont, err, proxy, value) ==
  /\ last' = IF err.thrown
             THEN Settled(p, cont.op, "rejected", err.message, proxy)
             ELSE [Settled(p, cont.op, "resolved", "", proxy) EXCEPT !.value = value]
  /\ held' = [held EXCEPT ![p] = IF proxy = NoProxy THEN @ ELSE @ \cup {proxy}]
  /\ firstResolved' =
       IF cont.op = "requestRemoteObject" /\ ~err.thrown /\ proxy # NoProxy
          /\ firstResolved[p][cont.name] = NoProxy
       THEN [firstResolved EXCEPT ![p][cont.name] = proxy]
       ELSE firstResolved

\* ObjectStore.#createValue of a description, up to the first suspension
createValue(p, description, cont, err, rid) ==
  IF description.type \in {"object", "function", "symbol"}
  THEN IF IsCached(p, description.id)
       THEN /\ Complete(p, cont, err, remoteObjects[p][description.id], Undefined)
            /\ UNCHANGED <<remoteObjects, objectsToClean, decodes>>
       ELSE /\ remoteObjects' = [remoteObjects EXCEPT ![p] = cacheValueMiss(p, description.id).ro]
            /\ objectsToClean' = [objectsToClean EXCEPT ![p] = cacheValueMiss(p, description.id).toClean]
            /\ decodes' = decodes \cup {Task(p, description, cont, err, rid)}
            /\ last' = Did(p, cont.op, "decoding")
            /\ UNCHANGED <<held, firstResolved>>
  ELSE IF description.type = "remote"
  THEN \* the data of a bound proxy of the other peer: its path is empty
       LET r == resolveRemoteValue(localObjects[p], description, Evaluation(p),
                                   [k |-> "return", v |-> Undefined])
       IN /\ IF r.kind = "value"
             THEN Complete(p, cont, err, NoProxy, r.v)
             ELSE Complete(p, cont, [thrown |-> TRUE, name |-> "Error",
                                     message |-> r.message], NoProxy, Undefined)
          /\ UNCHANGED <<remoteObjects, objectsToClean, decodes>>
  ELSE /\ Complete(p, cont, err, NoProxy, createPrimitive(description))
       /\ UNCHANGED <<remoteObjects, objectsToClean, decodes>>


(***************************************************************************)
(* RequestHandler.#handleResponse and the continuation of                  *)
(* ObjectStore.#requestValue: a response message is delivered.             *)
(***************************************************************************)
\* the response answers a request that the evaluation of a request awaits
IsCallbackResponse(m) ==
  /\ ~rhClosed[m.to] /\ Has(pendingRequests[m.to], m.id)
  /\ pendingRequests[m.to][m.id].op = "callback"

\* the response answers the syncGcRequest of a sync round
IsSyncGcResponse(m) ==
  /\ IsResponse(m)
  /\ ~rhClosed[m.to] /\ Has(pendingRequests[m.to], m.id)
  /\ pendingRequests[m.to][m.id].op = "syncGc"

InvalidId == "Response with invalid id (maybe from timeout): "
\* #pendingRequests.get(id) of line 206: the request a response resolves (a
\* variant that resolves the oldest pending request is resolveRequestOldest)
resolveRequestOldest(pending, id) ==
  IF DOMAIN pending = {} THEN id
  ELSE CHOOSE i \in DOMAIN pending : \A j \in DOMAIN pending : i <= j
resolveRequest(pending, id) == id
handleResponse(m) ==
  LET p == m.to
      rid == resolveRequest(pendingRequests[p], m.id)
      cont == pendingRequests[p][rid]
  IN
  /\ m \in net /\ ~IsRequest(m)
  /\ ~IsCallbackResponse(m)
  /\ ~IsSyncGcResponse(m)
  /\ net' = net \ {m}
  /\ IF rhClosed[p] \/ ~Has(pendingRequests[p], rid)
     THEN /\ last' = Settled(p, "newMessage", "emitError",
                             IF rhClosed[p] THEN EmittedClosed ELSE InvalidId, NoProxy)
          /\ UNCHANGED <<pendingRequests, settles, remoteObjects, objectsToClean,
                         decodes, held, firstResolved>>
     ELSE /\ pendingRequests' = [pendingRequests EXCEPT ![p] = cleanup(@, rid)]
          /\ settles' = [settles EXCEPT ![p] =
                settle(@, {rid}, IF IsErrorResponse(m) THEN m.errorResponse ELSE "")]
          /\ IF IsErrorResponse(m)
             THEN /\ last' = Settled(p, cont.op, "rejected", m.errorResponse, NoProxy)
                  /\ UNCHANGED <<remoteObjects, objectsToClean, decodes, held, firstResolved>>
             ELSE IF cont.op = "close"
             THEN /\ last' = Did(p, "close", "answered")
                  /\ UNCHANGED <<remoteObjects, objectsToClean, decodes, held, firstResolved>>
             ELSE IF cont.op = "request"
             THEN /\ last' = [Settled(p, "request", "resolved", cont.name, NoProxy)
                                EXCEPT !.value = m.response]
                  /\ UNCHANGED <<remoteObjects, objectsToClean, decodes, held, firstResolved>>
             ELSE IF m.response.type = "error"
             THEN createValue(p, m.response.value, cont,
                              [thrown |-> TRUE, name |-> m.response.name,
                               message |-> m.response.message], rid)
             ELSE createValue(p, m.response, cont, NoError, rid)
  /\ UNCHANGED <<gcVars, tableVars, closeVars, rhClosed, lastRequestId, keepStringIds,
                 registered, collected, finalizable, nextProxy, nextObj, props,
                 cur, lateBad, written, ops>>

\* the timer of the request id of p fires (lines 106-109).  The timer is
\* armed from #pendingRequests.set until cleanup, which is when the id is in
\* the map: close rejects every pending request before it clears the map.
\* A request that the evaluation of a request or a sync round awaits is left
\* to its response.
TimeoutError == "Request Timeout reached"
Awaited(p) ==
  {id \in DOMAIN pendingRequests[p] : pendingRequests[p][id].op \notin {"callback", "syncGc"}}
\* a timer whose callback does nothing
timeoutSilent(p, id) ==
  /\ id \in Awaited(p)
  /\ last' = Settled(p, pendingRequests[p][id].op, "rejected", TimeoutError, NoProxy)
  /\ UNCHANGED <<gcVars, tableVars, closeVars, cacheVars, histVars, rhVars,
                 nextObj, props, cur, ops>>
timeout(p, id) ==
  /\ id \in Awaited(p)
  /\ pendingRequests' = [pendingRequests EXCEPT ![p] = cleanup(@, id)]
  /\ settles' = [settles EXCEPT ![p] = settle(@, {id}, TimeoutError)]
  /\ last' = Settled(p, pendingRequests[p][id].op, "rejected", TimeoutError, NoProxy)
  /\ UNCHANGED <<gcVars, tableVars, closeVars, cacheVars, histVars, rhClosed,
                 lastRequestId, net, nextObj, props, cur, ops>>

\* MessageHandler.sendMessage fails for the request m (line 127): the
\* message does not reach the channel and `error` rejects the request
SendError == "sendMessage failed"
sendFailure(m) ==
  LET p == Other(m.to) IN
  /\ m \in net /\ IsRequest(m)
  /\ m.id \in Awaited(p)
  /\ net' = net \ {m}
  /\ pendingRequests' = [pendingRequests EXCEPT ![p] = cleanup(@, m.id)]
  /\ settles' = [settles EXCEPT ![p] = settle(@, {m.id}, SendError)]
  /\ last' = Settled(p, pendingRequests[p][m.id].op, "rejected", SendError, NoProxy)
  /\ UNCHANGED <<gcVars, tableVars, closeVars, cacheVars, histVars, rhClosed,
                 lastRequestId, nextObj, props, cur, ops>>

\* #cacheValue after `await generate()`: the new proxy or symbol is installed
cacheValueSet(p, id, value) ==
  /\ remoteObjects' = [remoteObjects EXCEPT ![p] = Put(@, id, value)]
  /\ IF IsString(id)
     THEN /\ keepStringIds' = [keepStringIds EXCEPT ![p] = Put(@, id, value)]
          /\ UNCHANGED registered
     ELSE /\ registered' = [registered EXCEPT ![p] = @ \cup {value}]
          /\ UNCHANGED keepStringIds

generate(t) ==
  LET p == t.peer
      value == [n |-> nextProxy[p], id |-> t.id]
  IN
  /\ t \in decodes
  /\ decodes' = decodes \ {t}
  /\ nextProxy' = [nextProxy EXCEPT ![p] = @ + 1]
  /\ cacheValueSet(p, t.id, value)
  /\ Complete(p, t.cont, t.err, value, Undefined)
  /\ UNCHANGED <<gcVars, tableVars, closeVars, rhVars, objectsToClean, collected,
                 finalizable, nextObj, props, cur, lateBad, written, ops>>

\* RequestHandler.#handleResponse for a request that #resolveRemoteValue
\* awaits: the answer is decoded and the walk goes on to its end
handleCallbackResponse(m) ==
  LET q == m.to
      cont == pendingRequests[q][m.id]
      E == Evaluation(q)
      path == cont.request.path
  IN
  /\ m \in net /\ ~IsRequest(m)
  /\ IsCallbackResponse(m)
  /\ \E oracle \in Oracles([path |-> SubSeq(path, cont.next, Len(path))]) :
       LET answer == IF IsErrorResponse(m) THEN ThrownError(m.errorResponse, E)
                     ELSE IF m.response.type = "error"
                     THEN ThrownError(m.response.message,
                                      createValueIn(m.response.value, E, oracle).E)
                     ELSE createValueIn(m.response, E, oracle)
           result == IF answer.kind = "value"
                     THEN walk(path, cont.next, cont.parent, answer.v, answer.E, oracle)
                     ELSE answer
       IN Finish(q, cont.request, cont.id, cont.direct, net \ {m},
                 cleanup(pendingRequests[q], m.id),
                 settle(settles[q], {m.id},
                        IF IsErrorResponse(m) THEN m.errorResponse ELSE ""),
                 result)
  /\ markSent(q)
  /\ UNCHANGED <<servingVars, collected, finalizable, held, decodes, firstResolved,
                 lateBad, cur, ops>>

(***************************************************************************)
(* The garbage collector and the FinalizationRegistry of a peer.           *)
(***************************************************************************)
Collect(p, x) ==
  /\ x \in Range(remoteObjects[p]) \cup registered[p]
  /\ x \notin collected[p] \cup held[p] \cup Range(keepStringIds[p])
  /\ collected' = [collected EXCEPT ![p] = @ \cup {x}]
  /\ finalizable' = [finalizable EXCEPT ![p] = IF x \in registered[p] THEN @ \cup {x} ELSE @]
  /\ last' = Did(p, "collect", "ok")
  /\ UNCHANGED <<gcVars, tableVars, closeVars, rhVars, remoteObjects, keepStringIds,
                 objectsToClean, registered, held, nextProxy, decodes, nextObj,
                 props, cur, histVars, ops>>

\* a finalization callback that also tells the owner at once
FinalizeNotifies(p, x) ==
  /\ x \in finalizable[p]
  /\ finalizable' = [finalizable EXCEPT ![p] = @ \ {x}]
  /\ registered' = [registered EXCEPT ![p] = @ \ {x}]
  /\ remoteObjects' = [remoteObjects EXCEPT ![p] = cleanupObject(RemoteTable(p), x.id).ro]
  /\ objectsToClean' = [objectsToClean EXCEPT ![p] = cleanupObject(RemoteTable(p), x.id).toClean]
  /\ net' = net \cup {RequestMessage(Other(p), 0, SyncGcRequest({x.id}, {}, clock))}
  /\ last' = Did(p, "finalize", "ok")
  /\ UNCHANGED <<gcVars, tableVars, closeVars, rhClosed, pendingRequests, lastRequestId,
                 settles, keepStringIds, collected, held,
                 nextProxy, decodes, nextObj, props, cur, histVars, ops>>

\* the callback given to the FinalizationRegistry runs for a reclaimed target
Finalize(p, x) ==
  /\ x \in finalizable[p]
  /\ finalizable' = [finalizable EXCEPT ![p] = @ \ {x}]
  /\ registered' = [registered EXCEPT ![p] = @ \ {x}]
  /\ remoteObjects' = [remoteObjects EXCEPT ![p] = cleanupObject(RemoteTable(p), x.id).ro]
  /\ objectsToClean' = [objectsToClean EXCEPT ![p] = cleanupObject(RemoteTable(p), x.id).toClean]
  /\ last' = Did(p, "finalize", "ok")
  /\ UNCHANGED <<gcVars, tableVars, closeVars, rhVars, keepStringIds, collected, held,
                 nextProxy, decodes, nextObj, props, cur, histVars, ops>>

\* the user program drops its references to a proxy
Drop(p, x) ==
  /\ UserOp
  /\ x \in held[p]
  /\ held' = [held EXCEPT ![p] = @ \ {x}]
  /\ last' = Did(p, "drop", "ok")
  /\ UNCHANGED <<gcVars, tableVars, closeVars, rhVars, remoteObjects, keepStringIds,
                 objectsToClean, registered, collected, finalizable, nextProxy,
                 decodes, nextObj, props, cur, histVars>>


\* the transport loses a request that awaits a proxy or sets a property
MaxLost == 1
Lose(m) ==
  /\ m \in net /\ IsRequest(m)
  /\ m.request.type = "remote"
  /\ Cardinality(lost) < MaxLost
  /\ net' = net \ {m}
  /\ lost' = lost \cup {m}
  /\ last' = Did(Other(m.to), "lose", "ok")
  /\ UNCHANGED <<tableVars, closeVars, cacheVars, rhClosed, pendingRequests, settles,
                 lastRequestId, histVars, sentAt, clock, doNotSyncGc, requestHandlerSet, shapeVars, nextObj, props,
                 cur, ops>>

(***************************************************************************)
(* RequestHandler.request, as called by the ObjectStore of p.              *)
(***************************************************************************)
request(p, description, cont) ==
  IF rhClosed[p]
  THEN /\ last' = Settled(p, cont.op, "rejected", ClosedError, NoProxy)
       /\ UNCHANGED rhVars
  ELSE LET id == nextRequestId(lastRequestId[p], pendingRequests[p])
       IN /\ lastRequestId' = [lastRequestId EXCEPT ![p] = id]
          /\ pendingRequests' = [pendingRequests EXCEPT ![p] = Put(@, id, cont)]
          /\ settles' = [settles EXCEPT ![p] = Put(@, id, Unsettled)]
          /\ net' = net \cup {RequestMessage(Other(p), id, description)}
          /\ last' = Did(p, cont.op, "sent")
          /\ UNCHANGED rhClosed

\* RequestHandler.request called by the user program with the request for
\* the value exposed as `name`
RequestHandler_request(p, name) ==
  /\ UserOp
  /\ request(p, RemoteData(StrId(name), <<>>), Cont("request", name))
  /\ UNCHANGED <<userVars, closeVars>>

\* RequestHandler.request called by the user program with a request that is
\* no message of an ObjectStore (such as {})
RequestHandler_requestMalformed(p) ==
  /\ UserOp
  /\ request(p, Malformed, Cont("request", "malformed"))
  /\ UNCHANGED <<userVars, closeVars>>

(***************************************************************************)
(* A sync round of the holder p (syncGc, by the timer, the object count or *)
(* an explicit call).                                                      *)
(***************************************************************************)
SyncingNever(p) == FALSE
Syncing(p) ==
  \E id \in DOMAIN pendingRequests[p] : pendingRequests[p][id].op = "syncGc"
\* the numeric ids p holds a live entry of its Remote Table for
newItems(p) ==
  {id \in DOMAIN remoteObjects[p] :
     ~IsString(id) /\ remoteObjects[p][id] \notin collected[p]}
SyncCont(deletedItems, at) ==
  [op |-> "syncGc", name |-> "", deletedItems |-> deletedItems, at |-> at]

\* the option doNotSyncGc switches the synchronisation off (a variant that
\* ignores the option is DisabledNever; one that never finds a round in
\* flight is SyncingNever)
DisabledNever(p) == FALSE
Disabled(p) == doNotSyncGc[p]
DisabledError == "Can not syncGc if option doNotSyncGc is true."

\* ObjectStore.syncGc called by the user program
syncGc(p) ==
  /\ IF Disabled(p)
     THEN /\ last' = Settled(p, "syncGc", "rejected", DisabledError, NoProxy)
          /\ UNCHANGED <<rhVars, clock>>
     ELSE IF closed[p]
     THEN /\ last' = Settled(p, "syncGc", "rejected", ClosedError, NoProxy)
          /\ UNCHANGED <<rhVars, clock>>
     ELSE IF Syncing(p)
     THEN /\ last' = Did(p, "syncGc", "busy")
          /\ UNCHANGED <<rhVars, clock>>
     ELSE /\ clock' = clock + 1
          /\ request(p, SyncGcRequest(objectsToClean[p], newItems(p), clock + 1),
                     SyncCont(objectsToClean[p], clock + 1))
  /\ UNCHANGED <<tableVars, closeVars, cacheVars, histVars, sentAt, lost, doNotSyncGc, requestHandlerSet, shapeVars,
                 nextObj, props, cur, ops>>

\* the timer (scheduleGcAfterTime) or the count of new objects
\* (scheduleGcAfterObjectCount) starts a round
scheduledGc(p) ==
  /\ ~Disabled(p)
  /\ ~closed[p]
  /\ syncGc(p)

\* the reply of a sync round: acknowledged releases leave the cleanup queue,
\* and the entries of ids the owner does not know leave the Remote Table
handleSyncGcResponse(m) ==
  LET p == m.to IN
  /\ m \in net /\ IsSyncGcResponse(m)
  /\ net' = net \ {m}
  /\ pendingRequests' = [pendingRequests EXCEPT ![p] = Del(@, m.id)]
  /\ settles' = [settles EXCEPT ![p] = settle(@, {m.id}, "")]
  /\ objectsToClean' = [objectsToClean EXCEPT ![p] = @ \ m.response.deletedItems]
  /\ remoteObjects' = [remoteObjects EXCEPT ![p] =
        [id \in DOMAIN @ \ m.response.unknownNewItems |-> @[id]]]
  /\ last' = Did(p, "syncGc", "synced")
  /\ UNCHANGED <<tableVars, closeVars, gcVars, rhClosed, lastRequestId, keepStringIds,
                 registered, collected, finalizable, held, nextProxy, decodes,
                 nextObj, props, cur, histVars, ops>>

(***************************************************************************)
(* ObjectStore.requestRemoteObject                                         *)
(***************************************************************************)
requestRemoteObject(p, name) ==
  LET id == StrId(name)
      ro == keepStringIds[p][id]
      resolvedBefore == firstResolved[p][name] # NoProxy
  IN
  /\ UserOp
  /\ IF closed[p]
     THEN /\ last' = Settled(p, "requestRemoteObject", "rejected", ClosedError, NoProxy)
          /\ UNCHANGED <<rhVars, held, firstResolved, lateBad>>
     ELSE IF Has(keepStringIds[p], id)
     THEN /\ last' = Settled(p, "requestRemoteObject", "resolved", "", ro)
          /\ held' = [held EXCEPT ![p] = @ \cup {ro}]
          /\ firstResolved' = IF resolvedBefore THEN firstResolved
                              ELSE [firstResolved EXCEPT ![p][name] = ro]
          /\ lateBad' = IF resolvedBefore /\ ro # firstResolved[p][name]
                        THEN [lateBad EXCEPT ![p] = @ \cup {name}] ELSE lateBad
          /\ UNCHANGED rhVars
     ELSE /\ request(p, RemoteData(id, <<>>), Cont("requestRemoteObject", name))
          /\ lateBad' = IF resolvedBefore /\ ~rhClosed[p]
                        THEN [lateBad EXCEPT ![p] = @ \cup {name}] ELSE lateBad
          /\ UNCHANGED <<held, firstResolved>>
  /\ UNCHANGED <<gcVars, tableVars, closeVars, remoteObjects, keepStringIds, objectsToClean,
                 registered, collected, finalizable, nextProxy, decodes, nextObj,
                 props, cur, written>>

(***************************************************************************)
(* Unbound proxies (ObjectStore.getRemoteObject, #createRemoteProxy,       *)
(* appendProxyPath).  cur[p] is the data of the proxy the user program of  *)
(* p holds; NoData when it holds none.                                     *)
(***************************************************************************)
NoData == RemoteData(StrId(""), <<>>)
ArgLists == {<<Prim(1)>>}
SetValues == {Prim(1)}

proxyVars == <<tableVars, closeVars, rhVars, cacheVars, histVars, gcVars, nextObj, props>>

getRemoteObject(p, name) ==
  /\ UserOp
  /\ IF closed[p]
     THEN /\ last' = Did(p, "getRemoteObject", ClosedError)
          /\ UNCHANGED cur
     ELSE /\ cur' = [cur EXCEPT ![p] = RemoteData(StrId(name), <<>>)]
          /\ last' = Did(p, "getRemoteObject", "ok")
  /\ UNCHANGED proxyVars

\* a get trap that fetches the property at once instead of recording it
getFetches(p, data, name) ==
  /\ UserOp
  /\ data # NoData /\ Len(data.path) < MaxPath
  /\ cur' = [cur EXCEPT ![p] = appendProxyPath(data, GetSegment(name)).data]
  /\ request(p, appendProxyPath(data, GetSegment(name)).data, Cont("get", ""))
  /\ UNCHANGED <<gcVars, tableVars, closeVars, cacheVars, histVars, nextObj, props>>

\* the get trap, for a property name that is not handled specially
get(p, data, name) ==
  /\ UserOp
  /\ data # NoData /\ Len(data.path) < MaxPath
  /\ cur' = [cur EXCEPT ![p] = appendProxyPath(data, GetSegment(name)).data]
  /\ last' = Did(p, "get", "ok")
  /\ UNCHANGED proxyVars

extend(p, data, type, args) ==
  LET d == describeArgs(LocalTable(p), args)
      segment == IF type = "call" THEN CallSegment(d.descs) ELSE NewSegment(d.descs)
  IN
  /\ UserOp
  /\ data # NoData /\ Len(data.path) < MaxPath
  /\ cur' = [cur EXCEPT ![p] = appendProxyPath(data, segment).data]
  /\ localObjects' = [localObjects EXCEPT ![p] = d.T.lo]
  /\ localObjectsId' = [localObjectsId EXCEPT ![p] = d.T.li]
  /\ lastRemoteId' = [lastRemoteId EXCEPT ![p] = d.T.lastId]
  /\ UNCHANGED <<gcVars, closeVars, rhVars, cacheVars, histVars, nextObj, props>>

\* the apply trap
apply(p, args) == extend(p, cur[p], "call", args) /\ last' = Did(p, "apply", "ok")

\* the construct trap
construct(p, args) == extend(p, cur[p], "new", args) /\ last' = Did(p, "construct", "ok")

\* await data(...args) and await new data(...args): the apply or construct
\* trap describes the arguments, and the proxy it returns is awaited at once
invokeAwaited(p, data, type, args) ==
  LET d == describeArgs(LocalTable(p), args)
      segment == IF type = "call" THEN CallSegment(d.descs) ELSE NewSegment(d.descs)
  IN
  /\ UserOp
  /\ data # NoData
  /\ localObjects' = [localObjects EXCEPT ![p] = d.T.lo]
  /\ localObjectsId' = [localObjectsId EXCEPT ![p] = d.T.li]
  /\ lastRemoteId' = [lastRemoteId EXCEPT ![p] = d.T.lastId]
  /\ request(p, appendProxyPath(data, segment).data, Cont("await", ""))
  /\ markSent(p)
  /\ UNCHANGED <<closeVars, cacheVars, histVars, nextObj, props, cur>>

\* the function the get trap returns for "then" is invoked: the proxy is awaited
then(p, data) ==
  /\ UserOp
  /\ data # NoData
  /\ request(p, data, Cont("await", ""))
  /\ markSent(p)
  /\ UNCHANGED <<tableVars, closeVars, cacheVars, histVars, nextObj, props, cur>>

CannotWrite == "Cannot write to a RemoteObject or Return Value. Only properties can be set."

\* a set function that returns a proxy for the path it wrote to
setReturnsProxy(p, data, value) ==
  LET d == getValueDescription(LocalTable(p), value)
      appended == appendProxyPath(data, SetSegment("set", d.desc))
  IN
  /\ UserOp
  /\ data # NoData
  /\ localObjects' = [localObjects EXCEPT ![p] = d.T.lo]
  /\ localObjectsId' = [localObjectsId EXCEPT ![p] = d.T.li]
  /\ lastRemoteId' = [lastRemoteId EXCEPT ![p] = d.T.lastId]
  /\ IF appended.threw
     THEN /\ last' = Settled(p, "set", "TypeError", CannotWrite, NoProxy)
          /\ UNCHANGED <<rhVars, cur>>
     ELSE /\ request(p, appended.data, Cont("set", ""))
          /\ cur' = [cur EXCEPT ![p] = appended.data]
  /\ markSent(p)
  /\ UNCHANGED <<closeVars, cacheVars, histVars, nextObj, props>>

\* the function the get trap of the proxy for `data` returns for "set" is
\* invoked: the value is described, then the path is extended
set(p, data, value) ==
  LET d == getValueDescription(LocalTable(p), value)
      appended == appendProxyPath(data, SetSegment("set", d.desc))
  IN
  /\ UserOp
  /\ data # NoData
  /\ localObjects' = [localObjects EXCEPT ![p] = d.T.lo]
  /\ localObjectsId' = [localObjectsId EXCEPT ![p] = d.T.li]
  /\ lastRemoteId' = [lastRemoteId EXCEPT ![p] = d.T.lastId]
  /\ IF appended.threw
     THEN /\ last' = Settled(p, "set", "TypeError", CannotWrite, NoProxy)
          /\ UNCHANGED rhVars
     ELSE request(p, appended.data, Cont("set", ""))
  /\ markSent(p)
  /\ UNCHANGED <<closeVars, cacheVars, histVars, nextObj, props, cur>>


(***************************************************************************)
(* The two peers after construction, and the steps they take.              *)
(***************************************************************************)
\* everything but the Local Tables and their counters
InitOther ==
  /\ closed = [p \in Peers |-> FALSE]
  /\ remoteObjects = [p \in Peers |-> EmptyMap]
  /\ keepStringIds = [p \in Peers |-> EmptyMap]
  /\ objectsToClean = [p \in Peers |-> {}]
  /\ registered = [p \in Peers |-> {}]
  /\ collected = [p \in Peers |-> {}]
  /\ finalizable = [p \in Peers |-> {}]
  /\ held = [p \in Peers |-> {}]
  /\ nextProxy = [p \in Peers |-> 1]
  /\ props = [p \in Peers |-> [o \in Objs |-> [k \in Keys |-> Obj((o % NumObjs) + 1)]]]
  /\ decodes = {}
  /\ cur = [p \in Peers |-> NoData]
  /\ rhClosed = [p \in Peers |-> FALSE]
  /\ pendingRequests = [p \in Peers |-> EmptyMap]
  /\ lastRequestId = [p \in Peers |-> 0]
  /\ net = {}
  /\ osDisc = [p \in Peers |-> 0]
  /\ rhDisc = [p \in Peers |-> 0]
  /\ mhDisc = [p \in Peers |-> 0]
  /\ closeSent = [p \in Peers |-> 0]
  /\ diverged = [p \in Peers |-> FALSE]
  /\ last = Did("", "init", "")
  /\ firstResolved = [p \in Peers |-> [n \in Names |-> NoProxy]]
  /\ lateBad = [p \in Peers |-> {}]
  /\ written = [p \in Peers |-> NoWrite]
  /\ sentAt = [p \in Peers |-> EmptyMap]
  /\ clock = 0
  /\ lost = {}
  /\ settles = [p \in Peers |-> EmptyMap]
  /\ shapeDescriptions = EmptyMap
  /\ describedAt = EmptyMap
  /\ ops = 0

\* the constructor of the ObjectStore gives its requestHandler to the
\* RequestHandler (line 35)
HandlersSet == requestHandlerSet = [p \in Peers |-> TRUE]

\* the options of the constructor: the defaults, and no prototypes sent
InitOptions ==
  /\ doNotSyncGc = [p \in Peers |-> FALSE]
  /\ remoteObjectPrototype = "none"
  /\ HandlersSet

\* the user's objects as created: the keys of Keys, no prototype
InitShapes == shapes = [o \in Objs |-> [keys |-> Keys, proto |-> {}]]

Init ==
  /\ localObjects = [p \in Peers |-> EmptyMap]
  /\ localObjectsId = [p \in Peers |-> EmptyMap]
  /\ lastRemoteId = [p \in Peers |-> 0]
  /\ nextObj = [p \in Peers |-> NumObjs + 1]
  /\ InitOther
  /\ InitOptions
  /\ InitShapes

\* the proxies whose traps the user program of p can reach
Reachable(p) == {cur[p]} \cup {RemoteData(x.id, <<>>) : x \in held[p]}

\* the peer that exposes objects and the peer that uses them
Owners == {"a"}
Holders == {"b"}

(***************************************************************************)
(* SpecCache: names are exposed by one peer and requested by the other,    *)
(* with the garbage collector of the requesting peer at work.              *)
(***************************************************************************)
\* ObjectStore.newMessage -> RequestHandler.newMessageHandler: the message
\* channel hands a message to its receiver
newMessage(m) ==
  \/ handleRequest(m)
  \/ handleResponse(m)

Delivery ==
  \/ \E m \in net : newMessage(m)
  \/ \E t \in decodes : generate(t)

GarbageCollection ==
  \/ \E p \in Peers : \E x \in Range(remoteObjects[p]) \cup registered[p] : Collect(p, x)
  \/ \E p \in Peers : \E x \in finalizable[p] : Finalize(p, x)
  \/ \E p \in Holders : \E x \in held[p] : Drop(p, x)

NextCache ==
  \/ \E p \in Owners, name \in Names, object \in Objs : exposeRemoteObject(p, name, object)
  \/ \E p \in Holders, name \in Names : requestRemoteObject(p, name)
  \/ Delivery
  \/ GarbageCollection

SpecCache == Init /\ [][NextCache]_vars

(***************************************************************************)
(* Spec: the user program of the holder awaits proxies it has built from a *)
(* name or from a proxy it holds; building them changes nothing (see       *)
(* SpecProxy), so the paths are drawn as inputs.                           *)
(***************************************************************************)
CallOne == CallSegment(<<[type |-> "prim", value |-> 1]>>)
\* a get trap that gives every proxy a then function
thenTrapAlways(resolveAsPromise) == [t |-> "function"]
\* the get trap for the name "then": undefined unless the proxy resolves as a promise
thenTrap(resolveAsPromise) ==
  IF ~resolveAsPromise THEN Undefined ELSE [t |-> "function"]

\* the user program awaits a proxy (or a promise is resolved with it): a
\* value with a then function is asked to settle, any other value is the result
await(p, data, resolveAsPromise, proxy) ==
  IF thenTrap(resolveAsPromise) # Undefined
  THEN then(p, data)
  ELSE /\ UserOp
       /\ last' = Settled(p, "await", "resolved", "", proxy)
       /\ UNCHANGED <<userVars, closeVars, rhVars>>

AwaitedPaths == {<<>>, <<GetSegment("k")>>, <<CallOne>>}

\* the data of the unbound proxies the user program awaits: getRemoteObject(name)
\* and the proxies built from it or from a bound proxy by get and apply
UserProxies(p) ==
  {RemoteData(root, path) : root \in {StrId(name) : name \in Names}, path \in AwaitedPaths}
  \cup {RemoteData(x.id, path) : x \in held[p], path \in AwaitedPaths \ {<<>>}}

Next ==
  \/ \E p \in Owners, name \in Names, object \in Objs : exposeRemoteObject(p, name, object)
  \/ \E p \in Holders : \E data \in UserProxies(p) : then(p, data)
  \/ Delivery
  \/ GarbageCollection

Spec == Init /\ [][Next]_vars

(***************************************************************************)
(* SpecProxy: the user program of the holder builds one proxy step by step *)
(* and uses it.                                                            *)
(***************************************************************************)
NextProxy ==
  \/ \E p \in Owners, name \in Names, object \in Objs : exposeRemoteObject(p, name, object)
  \/ \E p \in Holders, name \in Names : getRemoteObject(p, name)
  \/ \E p \in Holders : \E data \in Reachable(p), name \in Keys : get(p, data, name)
  \/ \E p \in Holders, args \in ArgLists : apply(p, args)
  \/ \E p \in Holders, args \in ArgLists : construct(p, args)
  \/ \E p \in Holders : then(p, cur[p])
  \/ \E p \in Holders, value \in SetValues : set(p, cur[p], value)
  \/ Delivery

SpecProxy == Init /\ [][NextProxy]_vars

(***************************************************************************)
(* SpecWrite: the user program of the holder writes the property k of the  *)
(* object exposed as x and reads it back.  Its writes may overlap; it      *)
(* reads when everything it started has completed, and starts no write     *)
(* while a read is under way.                                              *)
(***************************************************************************)
WriteValues == {Prim(1), Prim(2)}
Target == RemoteData(StrId("x"), <<GetSegment("k")>>)
Reading(p) ==
  \/ \E id \in DOMAIN pendingRequests[p] : pendingRequests[p][id].op = "await"
  \/ \E t \in decodes : t.peer = p /\ t.cont.op = "await"
Idle(p) == pendingRequests[p] = EmptyMap /\ \A t \in decodes : t.peer # p

\* p.k.set(value)
write(p, value) == ~Reading(p) /\ set(p, Target, value)
\* await p.k
read(p) == Idle(p) /\ then(p, Target)

NextWrite ==
  \/ \E p \in Owners, name \in Names, object \in Objs : exposeRemoteObject(p, name, object)
  \/ \E p \in Holders, value \in WriteValues : write(p, value)
  \/ \E p \in Holders : read(p)
  \/ Delivery

SpecWrite == Init /\ [][NextWrite]_vars

(***************************************************************************)
(* SpecBack: the user program of the holder passes proxies for values of   *)
(* the owner back to the owner, in calls, constructions and writes.        *)
(***************************************************************************)
BoundProxies(p) == {Proxy(RemoteData(x.id, <<>>)) : x \in held[p]}
Passed(p) == BoundProxies(p) \cup {Proxy(Target)}
Callees(p) == {RemoteData(StrId("y"), <<>>)} \cup {RemoteData(x.id, <<>>) : x \in held[p]}

NextBack ==
  \/ \E p \in Owners, name \in Names, object \in Objs : exposeRemoteObject(p, name, object)
  \/ \E p \in Holders : then(p, Target)
  \/ \E p \in Holders : \E data \in Callees(p), value \in Passed(p) :
       invokeAwaited(p, data, "call", <<value>>)
  \/ \E p \in Holders : \E data \in Callees(p), value \in Passed(p) :
       invokeAwaited(p, data, "new", <<value>>)
  \/ \E p \in Holders : \E value \in Passed(p) : set(p, Target, value)
  \/ Delivery

SpecBack == Init /\ [][NextBack]_vars

(***************************************************************************)
(* SpecCall: the user program of the holder passes a function of its own   *)
(* as a callback in calls of the exposed functions.                        *)
(***************************************************************************)
Callbacks == {Obj(2)}
\* the calls the holder makes
MaxSends == 2
Callee == RemoteData(StrId("x"), <<>>)

NextCall ==
  \/ \E p \in Owners, object \in Objs : exposeRemoteObject(p, "x", object)
  \/ \E p \in Holders : \E value \in Callbacks :
       lastRequestId[p] < MaxSends /\ invokeAwaited(p, Callee, "call", <<value>>)
  \/ Delivery
  \/ \E m \in net : handleCallbackResponse(m)

SpecCall == Init /\ [][NextCall]_vars

(***************************************************************************)
(* SpecIds: the owner serves calls that return or throw new objects, in a  *)
(* store whose id counter has been anywhere in its range (the test sets it *)
(* to MAX_SAFE_INTEGER - 1) and whose Local Table holds some of the ids    *)
(* that come next.                                                         *)
(***************************************************************************)
Successor(n) == IF n + 1 >= MaxSafeInteger THEN -MaxSafeInteger ELSE n + 1
\* as constructed, and just before the wrap as the test sets it
Counters == {0, MaxSafeInteger - 2, MaxSafeInteger - 1}
\* the objects that hold ids when the behaviour starts
Earlier == NumObjs + 1
Later == NumObjs + 2
Upcoming(c) == [id \in {NumId(Successor(c))} |-> Earlier]
UpcomingNext(c) == [id \in {NumId(Successor(Successor(c)))} |-> Later]
Tables(c) ==
  {EmptyMap, Upcoming(c), UpcomingNext(c),
   [id \in DOMAIN Upcoming(c) \cup DOMAIN UpcomingNext(c) |->
      IF id \in DOMAIN Upcoming(c) THEN Earlier ELSE Later]}
Descriptions(lo) ==
  [object \in Range(lo) |->
     getObjectDescription(object, CHOOSE id \in DOMAIN lo : lo[id] = object)]

InitIds ==
  /\ \E c \in Counters : \E lo \in Tables(c) :
       /\ lastRemoteId = [p \in Peers |-> IF p \in Owners THEN c ELSE 0]
       /\ localObjects = [p \in Peers |-> IF p \in Owners THEN lo ELSE EmptyMap]
       /\ localObjectsId = [p \in Peers |-> IF p \in Owners THEN Descriptions(lo)
                                              ELSE EmptyMap]
  /\ nextObj = [p \in Peers |-> Later + 1]
  /\ InitOther
  /\ InitOptions
  /\ InitShapes

Called1 == RemoteData(StrId("x"), <<CallOne>>)

NextIds ==
  \/ \E p \in Owners : exposeRemoteObject(p, "x", 2)
  \/ \E p \in Holders : then(p, Called1)
  \/ Delivery

SpecIds == InitIds /\ [][NextIds]_vars

(***************************************************************************)
(* SpecGc: the holder awaits x() again and again, drops what it got, and   *)
(* runs sync rounds, with the garbage collector at work.                   *)
(***************************************************************************)
NextGc ==
  \/ \E p \in Owners : exposeRemoteObject(p, "x", 2)
  \/ \E p \in Holders : then(p, Called1)
  \/ Delivery
  \/ \E m \in net : handleSyncGcResponse(m)
  \/ GarbageCollection
  \/ \E p \in Holders : clock < MaxRounds /\ scheduledGc(p)

SpecGc == Init /\ [][NextGc]_vars

(***************************************************************************)
(* SpecLost: the holder passes an object of its own to x, over a transport *)
(* that may lose the request; the owner of x drops the proxies it decodes  *)
(* and runs sync rounds.  The object is no function, so x cannot call it   *)
(* back.                                                                   *)
(***************************************************************************)
Arguments == {Obj(1)}

NextLost ==
  \/ \E p \in Owners : exposeRemoteObject(p, "x", 2)
  \/ \E p \in Holders, value \in Arguments :
       lastRequestId[p] < MaxSends /\ invokeAwaited(p, Callee, "call", <<value>>)
  \/ \E m \in net : Lose(m)
  \/ Delivery
  \/ \E p \in Owners : \E x \in Range(remoteObjects[p]) \cup registered[p] : Collect(p, x)
  \/ \E p \in Owners : \E x \in finalizable[p] : Finalize(p, x)
  \/ \E m \in net : handleSyncGcResponse(m)
  \/ \E p \in Owners : clock < MaxRounds /\ scheduledGc(p)

SpecLost == Init /\ [][NextLost]_vars

(***************************************************************************)
(* SpecClose: the stores and their RequestHandlers are closed from either  *)
(* layer while requests are under way.                                     *)
(***************************************************************************)
NextClose ==
  \/ \E p \in Owners, name \in Names, object \in Objs : exposeRemoteObject(p, name, object)
  \/ \E p \in Holders, name \in Names : requestRemoteObject(p, name)
  \/ \E p \in Holders, name \in Names : getRemoteObject(p, name)
  \/ \E p \in Peers : close(p)
  \/ \E p \in Peers : disconnectedHandler(p)
  \/ \E p \in Peers : RequestHandler_close(p)
  \/ \E p \in Peers : RequestHandler_disconnectedHandler(p)
  \/ \E p \in Peers, direct \in DirectRequests : requestHandlerCall(p, direct)
  \/ Delivery

SpecClose == Init /\ [][NextClose]_vars

(***************************************************************************)
(* Call and construct expressions with an object among the arguments, on   *)
(* proxies that are awaited or never awaited.                              *)
(***************************************************************************)
ObjectArgLists == {<<Obj(1)>>, <<Prim(1), Obj(2)>>}
NextArgs ==
  \/ \E p \in Owners : exposeRemoteObject(p, "x", 2)
  \/ \E p \in Holders : getRemoteObject(p, "x")
  \/ \E p \in Holders, args \in ObjectArgLists : apply(p, args)
  \/ \E p \in Holders, args \in ObjectArgLists : construct(p, args)
  \/ \E p \in Holders : then(p, cur[p])
  \/ Delivery

SpecArgs == Init /\ [][NextArgs]_vars

(***************************************************************************)
(* Sync rounds triggered again and again, by explicit calls and by the     *)
(* schedule, of a pair of stores constructed with or without the option    *)
(* doNotSyncGc.                                                            *)
(***************************************************************************)
MaxSyncs == 2
InitSync ==
  /\ localObjects = [p \in Peers |-> EmptyMap]
  /\ localObjectsId = [p \in Peers |-> EmptyMap]
  /\ lastRemoteId = [p \in Peers |-> 0]
  /\ nextObj = [p \in Peers |-> NumObjs + 1]
  /\ InitOther
  /\ \E option \in BOOLEAN : doNotSyncGc = [p \in Peers |-> option]
  /\ remoteObjectPrototype = "none"
  /\ HandlersSet
  /\ InitShapes

NextSync ==
  \/ \E p \in Owners : exposeRemoteObject(p, "x", 2)
  \/ \E p \in Holders : lastRequestId[p] < MaxSends /\ then(p, Called1)
  \/ Delivery
  \/ \E m \in net : handleSyncGcResponse(m)
  \/ \E p \in Holders : \E x \in Range(remoteObjects[p]) \cup registered[p] : Collect(p, x)
  \/ \E p \in Holders : \E x \in finalizable[p] : Finalize(p, x)
  \/ \E p \in Holders : \E x \in held[p] : Drop(p, x)
  \/ \E p \in Holders : clock < MaxSyncs /\ syncGc(p)
  \/ \E p \in Holders : clock < MaxSyncs /\ scheduledGc(p)

SpecSync == InitSync /\ [][NextSync]_vars

(***************************************************************************)
(* The requests of one RequestHandler: several are pending at once, their  *)
(* responses arrive in any order or not at all, a send fails, a timer      *)
(* fires and the handler is closed.                                        *)
(***************************************************************************)
MaxRequests == 3
NextRequest ==
  \/ \E p \in Owners : exposeRemoteObject(p, "x", 2)
  \/ \E p \in Holders : RequestHandler_request(p, "x")
  \/ \E m \in net : newMessage(m)
  \/ \E p \in Holders : \E id \in DOMAIN pendingRequests[p] : timeout(p, id)
  \/ \E m \in net : sendFailure(m)
  \/ \E p \in Holders : RequestHandler_close(p)

SpecRequest == Init /\ [][NextRequest]_vars

\* a timer that is armed fires unless it is cleared (setTimeout, line 106)
SpecRequestFair ==
  SpecRequest /\ \A p \in Holders : \A id \in 1..MaxRequests : WF_vars(timeout(p, id))

(***************************************************************************)
(* SpecHandler: requests that the receiving side cannot serve, because     *)
(* they are no messages of an ObjectStore or because the receiving         *)
(* RequestHandler was constructed without an ObjectStore (its              *)
(* requestHandler is not set), among requests that it can serve.           *)
(***************************************************************************)
InitHandler ==
  /\ localObjects = [p \in Peers |-> EmptyMap]
  /\ localObjectsId = [p \in Peers |-> EmptyMap]
  /\ lastRemoteId = [p \in Peers |-> 0]
  /\ nextObj = [p \in Peers |-> NumObjs + 1]
  /\ InitOther
  /\ InitShapes
  /\ doNotSyncGc = [p \in Peers |-> FALSE]
  /\ remoteObjectPrototype = "none"
  /\ \E given \in BOOLEAN : requestHandlerSet = [p \in Peers |-> p \in Holders \/ given]

NextHandler ==
  \/ \E p \in Owners : exposeRemoteObject(p, "x", 2)
  \/ \E p \in Holders : RequestHandler_request(p, "x")
  \/ \E p \in Holders : RequestHandler_requestMalformed(p)
  \/ \E m \in net : newMessage(m)

SpecHandler == InitHandler /\ [][NextHandler]_vars

(***************************************************************************)
(* SpecEval: the holder awaits one proxy of the exposed object x whose     *)
(* path is any sequence of get, call and new segments, or such a sequence  *)
(* with a final set.                                                       *)
(***************************************************************************)
MaxSegments == 3
MaxAwaits == 1
One == [type |-> "prim", value |-> 1]
EvalSegments == {GetSegment("k"), CallSegment(<<One>>), NewSegment(<<One>>)}
RECURSIVE PathsOf(_)
PathsOf(n) ==
  IF n = 0 THEN {<<>>}
  ELSE PathsOf(n - 1) \cup
       {Append(path, segment) : path \in {q \in PathsOf(n - 1) : Len(q) = n - 1},
                                segment \in EvalSegments}
EvalPaths ==
  PathsOf(MaxSegments) \cup
  {Append(path, SetSegment("k", One)) : path \in PathsOf(MaxSegments - 1)}

NextEval ==
  \/ \E p \in Owners, object \in Objs : exposeRemoteObject(p, "x", object)
  \/ \E p \in Holders, path \in EvalPaths :
       lastRequestId[p] < MaxAwaits /\ then(p, RemoteData(StrId("x"), path))
  \/ Delivery

SpecEval == Init /\ [][NextEval]_vars

(***************************************************************************)
(* The shape of a description (#getObjectDescription, #getOwnKeysOfObject, *)
(* getAllKeys) and the reflection traps of a bound proxy                   *)
(* (#createRemoteObject).  Keys are strings, which decode to themselves.   *)
(* An object stands for the id of its description; the description of an   *)
(* id is generated once (#cacheDescription), so a proxy decoded from it at *)
(* any time has the ownKeys, hasKeys and prototype of shapeDescriptions.   *)
(***************************************************************************)
Policies == {"full", "keysOnly", "none"}
ShapeKeys == {"k", "m"}

\* getAllKeys: the keys of the object and of its prototype chain
RECURSIVE getAllKeys(_, _)
getAllKeys(S, object) ==
  S[object].keys \cup UNION {getAllKeys(S, proto) : proto \in S[object].proto}

\* #cacheDescription with #getObjectDescription as generate, on the cache D
\* of shapes: under "full" the prototype is described first (line 245)
RECURSIVE cacheShape(_, _, _, _)
cacheShape(policy, S, D, object) ==
  IF Has(D, object) THEN D
  ELSE LET protos == IF policy = "full" THEN S[object].proto ELSE {}
           D1 == IF protos = {} THEN D
                 ELSE cacheShape(policy, S, D, CHOOSE proto \in protos : TRUE)
       IN Put(D1, object,
              [ownKeys |-> S[object].keys,
               hasKeys |-> IF policy = "keysOnly" THEN getAllKeys(S, object) ELSE {},
               prototype |-> protos])

\* a has trap that looks at the own keys only
RECURSIVE has(_, _, _)
hasOwnOnly(D, object, property) == property \in D[object].ownKeys
\* the has trap of the bound proxy for the description of object (lines 342-347)
has(D, object, property) ==
  \/ property \in D[object].ownKeys
  \/ property \in D[object].hasKeys
  \/ \E proto \in D[object].prototype : has(D, proto, property)

\* the program of the owner adds a property to one of its objects
defineProperty(object, key) ==
  /\ key \notin shapes[object].keys
  /\ shapes' = [shapes EXCEPT ![object].keys = @ \cup {key}]
  /\ last' = Did("a", "defineProperty", "ok")
  /\ UNCHANGED <<tableVars, cacheVars, rhVars, closeVars, histVars, sentAt, clock, lost,
                 doNotSyncGc, requestHandlerSet, remoteObjectPrototype, shapeDescriptions, describedAt,
                 cur, nextObj, props, ops>>

\* the owner encodes the object for the first time (#getValueDescription)
describe(object) ==
  LET D == cacheShape(remoteObjectPrototype, shapes, shapeDescriptions, object) IN
  /\ ~Has(shapeDescriptions, object)
  /\ shapeDescriptions' = D
  /\ describedAt' = [o \in DOMAIN D |->
                       IF Has(describedAt, o) THEN describedAt[o]
                       ELSE [own |-> shapes[o].keys, all |-> getAllKeys(shapes, o)]]
  /\ last' = Did("a", "describe", "ok")
  /\ UNCHANGED <<tableVars, cacheVars, rhVars, closeVars, histVars, sentAt, clock, lost,
                 doNotSyncGc, requestHandlerSet, remoteObjectPrototype, shapes, cur, nextObj, props, ops>>

\* the program of the holder evaluates `key in proxy` on the bound proxy
hasTrap(object, key) ==
  /\ Has(shapeDescriptions, object)
  /\ last' = [Did("b", "has", IF has(shapeDescriptions, object, key) THEN "true" ELSE "false")
                EXCEPT !.message = key, !.value = Obj(object)]
  /\ UNCHANGED <<tableVars, cacheVars, rhVars, closeVars, histVars, gcVars,
                 cur, nextObj, props, ops>>

\* the stores are constructed with any of the three policies; an object has
\* no prototype or a later object as prototype
InitShape ==
  /\ localObjects = [p \in Peers |-> EmptyMap]
  /\ localObjectsId = [p \in Peers |-> EmptyMap]
  /\ lastRemoteId = [p \in Peers |-> 0]
  /\ nextObj = [p \in Peers |-> NumObjs + 1]
  /\ InitOther
  /\ doNotSyncGc = [p \in Peers |-> FALSE]
  /\ HandlersSet
  /\ remoteObjectPrototype \in Policies
  /\ \E protos \in [Objs -> SUBSET Objs] :
       /\ \A o \in Objs : Cardinality(protos[o]) <= 1 /\ \A q \in protos[o] : q > o
       /\ shapes = [o \in Objs |-> [keys |-> {}, proto |-> protos[o]]]

NextShape ==
  \/ \E object \in Objs, key \in ShapeKeys : defineProperty(object, key)
  \/ \E object \in Objs : describe(object)
  \/ \E object \in Objs, key \in ShapeKeys : hasTrap(object, key)

SpecShape == InitShape /\ [][NextShape]_vars

(***************************************************************************)
(* Exposure (ObjectStore.exposeRemoteObject)                               *)
(***************************************************************************)
ExposedAs(p, name) == localObjects[p][StrId(name)]
IsExposed(p, name) == Has(localObjects[p], StrId(name))

\* C3: in every reachable state a value is exposed under at most one
\* user-facing name (exposing it under a second name fails).
ExposureUniqueness ==
  \A p \in Peers : \A name1, name2 \in Names :
    (IsExposed(p, name1) /\ IsExposed(p, name2)
     /\ ExposedAs(p, name1) = ExposedAs(p, name2)) => name1 = name2

\* C4: exposeRemoteObject(name, v) on a name that is already exposed fails
\* with the 'already exposed' error and leaves the binding of the name and
\* every other entry of the Local Table as they were.
DuplicateNameRejected ==
  [][\A p \in Peers, name \in Names, object \in Objs :
       (exposeRemoteObject(p, name, object) /\ ~closed[p] /\ IsExposed(p, name))
       => /\ last'.outcome = "already exposed"
          /\ localObjects' = localObjects
          /\ localObjectsId' = localObjectsId
          /\ lastRemoteId' = lastRemoteId]_vars

\* a second exposeRemoteObject of an exposed name was rejected, its binding kept
DuplicateNameWasRejected ==
  /\ last.op = "exposeRemoteObject" /\ last.outcome = "already exposed"
  /\ \E name \in Names : IsExposed(last.peer, name)


(***************************************************************************)
(* The Remote Table (ObjectStore.#cacheValue, requestRemoteObject)         *)
(***************************************************************************)
GcTracked(id) == ~IsString(id)

\* C1: proxy identity.  For every gc-tracked remote id, the proxies that the
\* decodes on one peer have returned and that are still referenced are one
\* and the same instance: two distinct live proxies for the id never coexist.
ProxyIdentity ==
  \A p \in Peers : \A x, y \in held[p] :
    (GcTracked(x.id) /\ x.id = y.id) => x = y

\* C2: once requestRemoteObject(name) has resolved to a proxy on an open
\* store, every later requestRemoteObject(name) returns that same proxy and
\* sends no request.
LaterCallsReturnFirstProxy ==
  \A p \in Peers : lateBad[p] = {}


(***************************************************************************)
(* Closing (ObjectStore.close, RequestHandler.close)                       *)
(***************************************************************************)
\* the operation reported by a step failed with the closed-store error
FailedClosed(l) ==
  \/ l.outcome = ClosedError
  \/ l.outcome = "rejected" /\ l.message = ClosedError

\* the state of the stores and RequestHandlers, without the message channel
storeState == <<closed, localObjects, localObjectsId, lastRemoteId, remoteObjects,
                keepStringIds, objectsToClean, registered, collected, finalizable,
                held, nextProxy, nextObj, props, decodes, cur, rhClosed,
                pendingRequests, lastRequestId, osDisc, rhDisc, mhDisc, closeSent,
                diverged, firstResolved, lateBad>>

\* this step is a call of a public operation other than close on peer p
GatedOps == {"exposeRemoteObject", "requestRemoteObject", "getRemoteObject", "requestHandler"}
CalledOn(p) == ops' = ops + 1 /\ last'.peer = p /\ last'.op \in GatedOps
\* this step is newMessage(m) on peer p
Delivered(p, m) == m \in net /\ m \notin net' /\ m.to = p

\* C5: once an ObjectStore is closed, every public operation other than close
\* (exposeRemoteObject, requestRemoteObject, getRemoteObject, newMessage,
\* requestHandler) fails with the closed-store error and changes no state.
ClosedStoreRejects ==
  [][\A p \in Peers :
       (closed[p] /\ (CalledOn(p) \/ \E m \in net : Delivered(p, m)))
       => (FailedClosed(last') /\ UNCHANGED storeState)]_vars

\* C6: closed is terminal and close is idempotent across both layers:
\* neither the ObjectStore nor its RequestHandler becomes open again, the
\* mutual notification between them terminates, and each disconnect callback
\* (the RequestHandler's, the ObjectStore's, the MessageHandler's) is invoked
\* at most once.
ClosedIsTerminal ==
  [][\A p \in Peers :
       /\ closed[p] => closed'[p]
       /\ rhClosed[p] => rhClosed'[p]
       /\ ~diverged'[p]
       /\ rhDisc'[p] <= 1 /\ osDisc'[p] <= 1 /\ mhDisc'[p] <= 1]_vars

\* close() was called on a store that RequestHandler.close had closed before
ClosedTwice ==
  /\ last.op = "close" /\ last.outcome = "ok"
  /\ closed[last.peer] /\ rhClosed[last.peer] /\ closeSent[last.peer] = 0
  /\ rhDisc[last.peer] = 1 /\ osDisc[last.peer] = 1 /\ mhDisc[last.peer] = 1

IsCloseMessage(m) == IsRequest(m) /\ m.request = CloseRequest
CloseMessagesTo(p, channel) == {m \in channel : IsCloseMessage(m) /\ m.to = p}

\* C7: the peer that handles a close message is closed afterwards, each peer
\* sends at most one close message, and a close message received by a store
\* that is already closed triggers no further close message.
CloseExchangeTerminates ==
  [][\A p \in Peers :
       /\ closeSent'[p] <= 1
       /\ \A m \in CloseMessagesTo(p, net) :
            Delivered(p, m) =>
              /\ closed'[p]
              /\ closed[p] => /\ closeSent'[p] = closeSent[p]
                              /\ CloseMessagesTo(Other(p), net')
                                   \subseteq CloseMessagesTo(Other(p), net)]_vars

\* both stores are closed, each has sent its one close message, and the one
\* that came back to the store closed first has been dropped
CloseExchangeDone ==
  /\ \A p \in Peers : closed[p] /\ closeSent[p] = 1
  /\ last.op = "newMessage" /\ last.message = EmittedClosed
  /\ net = {}


(***************************************************************************)
(* Unbound proxies (ObjectStore.getRemoteObject, #createRemoteProxy)       *)
(***************************************************************************)
\* this step is the user program of p calling `op`
Called(p, op) == ops' = ops + 1 /\ last'.peer = p /\ last'.op = op
\* the requests this step puts on the channel
RequestsSent == {m \in net' \ net : IsRequest(m)}
PathExtensions == {"getRemoteObject", "get", "apply", "construct"}
EndsInGet(data) == data.path # <<>> /\ data.path[Len(data.path)].type = "get"

\* C8: getRemoteObject and every path extension on a proxy (property read,
\* call, construct) send no request; a request is sent only when an unbound
\* proxy is awaited or its set function is called; each await sends exactly
\* one request carrying the whole recorded path, and each set on a path that
\* ends in a property read sends exactly one request carrying that path with
\* its last segment turned into the write.
ProxiesAreLazy ==
  [][\A p \in Peers :
       /\ (\E op \in PathExtensions : Called(p, op))
            => (net' = net /\ pendingRequests' = pendingRequests)
       /\ (\E m \in RequestsSent : m.to = Other(p))
            => (Called(p, "await") \/ Called(p, "set"))
       /\ Called(p, "await")
            => /\ Cardinality(RequestsSent) = 1
               /\ \A m \in RequestsSent : m.request = cur[p]
       /\ (Called(p, "set") /\ EndsInGet(cur[p]))
            => /\ Cardinality(RequestsSent) = 1
               /\ \A m \in RequestsSent :
                    LET n == Len(cur[p].path) IN
                    /\ m.request.root = cur[p].root
                    /\ Len(m.request.path) = n
                    /\ SubSeq(m.request.path, 1, n - 1) = SubSeq(cur[p].path, 1, n - 1)
                    /\ m.request.path[n].type = "set"
                    /\ m.request.path[n].name = cur[p].path[n].name]_vars

\* a proxy built by getRemoteObject and two extensions was awaited or written:
\* the first and only request for it is on the channel
WholePathSent ==
  /\ last.op \in {"await", "set"} /\ last.outcome = "sent"
  /\ \E m \in net : IsRequest(m) /\ m.request.type = "remote" /\ Len(m.request.path) = 2
  /\ Cardinality(net) = 1 /\ lastRequestId[last.peer] = 1

\* what peer q owns and serves
ownerState(q) == <<closed[q], localObjects[q], localObjectsId[q], lastRemoteId[q],
                   props[q], nextObj[q], remoteObjects[q], rhClosed[q],
                   pendingRequests[q], lastRequestId[q]>>

\* C11: calling set on a proxy whose path is empty or whose last segment is
\* call or new fails with the 'Cannot write to a RemoteObject or Return
\* Value' error, sends no request and changes nothing on the owner.
WriteToValueFails ==
  [][\A p \in Peers :
       (Called(p, "set") /\ ~EndsInGet(cur[p]))
       => /\ last'.outcome = "TypeError" /\ last'.message = CannotWrite
          /\ net' = net
          /\ pendingRequests' = pendingRequests /\ lastRequestId' = lastRequestId
          /\ ownerState(Other(p))' = ownerState(Other(p))]_vars

\* set was called on the proxy for the result of a call and failed
WriteToReturnValueFailed ==
  /\ last.op = "set" /\ last.outcome = "TypeError"
  /\ cur[last.peer].path # <<>>
  /\ cur[last.peer].path[Len(cur[last.peer].path)].type = "call"
  /\ net = {}

\* the description the holder's encoder gives the values it writes
SetValueDescriptions(p) ==
  {getValueDescription(LocalTable(p), value).desc : value \in SetValues}

\* C12: calling set(x) on a proxy whose path ends in get(k) sends a request
\* whose path is the recorded path with that final get(k) replaced by
\* set(k, x): all preceding segments are unchanged, the path length is
\* unchanged, and set is the last segment.
SetReplacesFinalGet ==
  [][\A p \in Peers :
       (Called(p, "set") /\ EndsInGet(cur[p]))
       => LET n == Len(cur[p].path) IN
          \E m \in net' \ net :
            /\ net' \ net = {m}
            /\ IsRequest(m) /\ m.to = Other(p)
            /\ m.request.type = "remote" /\ m.request.root = cur[p].root
            /\ Len(m.request.path) = n
            /\ \A i \in 1..(n - 1) : m.request.path[i] = cur[p].path[i]
            /\ m.request.path[n].type = "set"
            /\ m.request.path[n].name = cur[p].path[n].name
            /\ m.request.path[n].value \in SetValueDescriptions(p)
            /\ \A i \in 1..(n - 1) : m.request.path[i].type # "set"]_vars

\* set was called on a proxy whose path was a call followed by a property
\* read: the request keeps the call and ends in the write
FinalGetReplaced ==
  /\ last.op = "set" /\ last.outcome = "sent"
  /\ Len(cur[last.peer].path) = 2 /\ cur[last.peer].path[1].type = "call"
  /\ \E m \in net : /\ IsRequest(m) /\ Len(m.request.path) = 2
                    /\ m.request.path[1] = cur[last.peer].path[1]
                    /\ m.request.path[2].type = "set"


(***************************************************************************)
(* Writes (the set segment of #resolveRemoteValue)                         *)
(***************************************************************************)
Wrote(q) == written[q] # NoWrite
\* the step settles the operation `op` of p with the outcome
Settles(p, op, outcome) ==
  /\ ops' = ops /\ last'.peer = p /\ last'.op = op /\ last'.outcome = outcome

\* C13: last writer wins.  When an awaited p.k.set(x) completes, the owner
\* has evaluated it; a read of p.k that was issued after every write had
\* completed, with no write evaluated in between, returns the value of the
\* write the owner evaluated last; and the owner's property holds that value.
LastWriterWins ==
  [][\A p \in Holders : LET q == Other(p) IN
       /\ Settles(p, "set", "resolved") => Wrote(q)
       /\ (Settles(p, "await", "resolved") /\ Wrote(q))
            => /\ last'.proxy = NoProxy
               /\ last'.value = createPrimitive(written[q].value)
       /\ Wrote(q)' =>
            /\ written'[q].root = Target.root /\ written'[q].name = "k"
            /\ props'[q][localObjects'[q][Target.root]]["k"]
                 = createPrimitive(written'[q].value)]_vars

\* after two writes the holder issued a read, its third request, and the read
\* returned 1, the value of the write the owner evaluated last
ReadAfterOverlappingWrites ==
  /\ last.op = "await" /\ last.outcome = "resolved" /\ last.value = Prim(1)
  /\ lastRequestId[last.peer] = 3
  /\ \E w \in {written[Other(last.peer)]} : w # NoWrite /\ w.value.value = 1
  /\ ops = MaxOps


(***************************************************************************)
(* Errors of path evaluation (#resolveRemoteValue, #describePromiseResult) *)
(***************************************************************************)
\* this step delivers the request message m to an open peer
Handled(m) ==
  /\ m \in net /\ m \notin net' /\ IsRequest(m) /\ m.request.type = "remote"
  /\ ~closed[m.to] /\ ~rhClosed[m.to]
\* the messages this step puts on the channel
Sent == net' \ net
StaysOpen(q) == ~closed'[q] /\ ~rhClosed'[q]
UnknownId == "unknown"

\* C9: a request whose root id is not in the owner's Local Table is not a
\* transport failure: the owner answers with a response that carries an error
\* description ('Object with id ... is unknown.'), not with an errorResponse;
\* the operation that awaits it on the requester rejects with that error; and
\* the owner's store stays open.
UnknownRootIsAnError ==
  [][/\ \A m \in net :
          (Handled(m) /\ ~Has(localObjects[m.to], m.request.root))
          => /\ \E r \in Sent :
                  /\ Sent = {r} /\ IsResponse(r) /\ r.id = m.id /\ r.to = Other(m.to)
                  /\ r.response.type = "error" /\ r.response.message = UnknownId
             /\ StaysOpen(m.to)
     /\ \A r \in net :
          (/\ r \notin net' /\ IsResponse(r) /\ ~rhClosed[r.to]
           /\ Has(pendingRequests[r.to], r.id)
           /\ r.response.type = "error" /\ r.response.message = UnknownId)
          => \/ last' = Settled(r.to, pendingRequests[r.to][r.id].op, "rejected",
                                UnknownId, NoProxy)
             \/ \E t \in decodes' \ decodes :
                  /\ t.peer = r.to /\ t.cont = pendingRequests[r.to][r.id]
                  /\ t.err.thrown /\ t.err.message = UnknownId
     /\ \A t \in decodes :
          (t \notin decodes' /\ t.err.thrown)
          => (last'.peer = t.peer /\ last'.op = t.cont.op
              /\ last'.outcome = "rejected" /\ last'.message = t.err.message)]_vars

\* an await of a proxy whose root the owner does not know was rejected with
\* the owner's error, and the owner is open
UnknownRootRejected ==
  /\ last.op = "await" /\ last.outcome = "rejected" /\ last.message = UnknownId
  /\ \A p \in Peers : ~closed[p] /\ ~rhClosed[p]

\* C10: when path evaluation throws on the owner, the owner's requestHandler
\* still resolves: the response carries an error description whose value is
\* the thrown value, an object by reference to the owner's Local Table; the
\* owner's store remains open; and every request that arrives at the open
\* owner, also after a throw, is answered with one response of its id.
ThrowIsAPayload ==
  [][\A m \in net :
       Handled(m)
       => /\ \E r \in Sent : Sent = {r} /\ IsResponse(r) /\ r.id = m.id
          /\ StaysOpen(m.to)
          /\ (last'.outcome = "throw") =>
               \A r \in Sent :
                 /\ r.response.type = "error"
                 /\ last'.value.t = "obj" =>
                      /\ r.response.value.type \in {"object", "function"}
                      /\ Has(localObjects'[m.to], r.response.value.id)
                      /\ localObjects'[m.to][r.response.value.id] = last'.value.o
                 /\ last'.value.t = "prim" =>
                      r.response.value = [type |-> "prim", value |-> last'.value.v]
          /\ (last'.outcome = "value") => \A r \in Sent : r.response.type # "error"]_vars

\* the owner has served a request normally after the evaluation of an earlier
\* one threw in a user function; the answer to that one is still on the channel
ServedAfterThrow ==
  /\ last.op = "requestHandler" /\ last.outcome = "value" /\ last.value.t = "obj"
  /\ ~closed[last.peer] /\ ~rhClosed[last.peer]
  /\ \E r \in net : /\ IsResponse(r) /\ r.to = Other(last.peer)
                    /\ r.response.type = "error" /\ r.response.message = "boom"
  /\ \E r \in net : /\ IsResponse(r) /\ r.to = Other(last.peer)
                    /\ r.response.type \in {"object", "function"}


(***************************************************************************)
(* References in requests (#getValueDescription, #createValue)             *)
(***************************************************************************)
\* the value of peer q that the data of a proxy stands for
Denoted(q, data) ==
  IF data.path = <<>> THEN Obj(localObjects[q][data.root])
  ELSE props[q][localObjects[q][data.root]][data.path[1].name]
\* the description in the last segment of a request that passes a value
Reference(description) ==
  LET segment == description.path[Len(description.path)] IN
  IF segment.type = "set" THEN segment.value
  ELSE IF segment.type \in {"call", "new"} THEN segment.args[1]
  ELSE undefinedDescription
\* the request m passes a value: its path ends in a call, a construction or a write
Passes(m) ==
  /\ m.request.path # <<>>
  /\ m.request.path[Len(m.request.path)].type \in {"call", "new", "set"}

\* C14: when peer B passes a proxy for a value v owned by peer A back to A,
\* as a call or constructor argument or as a set value, A's path evaluator
\* receives v itself, not a proxy and not a copy (the request carries the
\* data of the proxy, the function is called with v, the property is set to
\* v, and A's Remote Table gets no entry), and B allocates no Local Table id
\* for the proxy.  Every value the holder passes here is such a proxy.
PassedBackIsOriginal ==
  [][/\ \A m \in net :
          (Handled(m) /\ Passes(m)) =>
            LET q == m.to
                segment == m.request.path[Len(m.request.path)]
                reference == Reference(m.request)
                v == Denoted(q, reference)
            IN /\ reference.type = "remote"
               /\ remoteObjects'[q] = remoteObjects[q]
               /\ Has(localObjects[q], reference.root) =>
                    /\ v.t = "obj"
                    /\ last'.calls # <<>> => last'.calls = <<(<<v>>)>>
                    /\ (segment.type = "set" /\ last'.outcome = "value")
                         => props'[q][localObjects[q][m.request.root]][segment.name] = v
     /\ \A p \in Holders :
          (Called(p, "await") \/ Called(p, "set")) => LocalTable(p)' = LocalTable(p)]_vars

\* the holder passed the proxy it had got for a function of the owner back
\* in a call; the owner's function received the function itself and returned
\* it, and the answer on the channel describes it under the id of the proxy
OriginalReceived ==
  /\ last.op = "requestHandler" /\ last.outcome = "value"
  /\ last.calls # <<>> /\ last.value = last.calls[1][1] /\ last.value.t = "obj"
  /\ \E r \in net : \E h \in held[Other(last.peer)] :
       /\ IsResponse(r) /\ r.response.type = "function" /\ r.response.id = h.id
       /\ ~IsString(h.id)
       /\ last.value = Obj(localObjects[last.peer][h.id])
  /\ localObjects[Other(last.peer)] = EmptyMap


(***************************************************************************)
(* Callbacks (#resolveRemoteValue awaiting a proxy of the requester)       *)
(***************************************************************************)
\* the continuation on the owner of the nested request m
Outer(m) == pendingRequests[Other(m.to)][m.id]
\* m is a request that an evaluation on the other peer awaits
IsNested(m) ==
  /\ IsRequest(m) /\ Has(pendingRequests[Other(m.to)], m.id)
  /\ Outer(m).op = "callback"
\* what the answer r of the callback becomes as the result of the outer request
Reflected(r) ==
  IF r.response.type = "error"
  THEN [type |-> "error", message |-> r.response.message]
  ELSE IF r.response.type \in {"object", "function"}
  THEN RemoteData(r.response.id, <<>>)
  ELSE r.response
\* every pending request has its message, its answer, the decoding of its
\* answer or an evaluation that awaits a nested request under way
InProgress(p, id) ==
  \/ \E m \in net : m.to = Other(p) /\ m.id = id /\ IsRequest(m)
  \/ \E m \in net : m.to = p /\ m.id = id /\ ~IsRequest(m)
  \/ \E t \in decodes : t.peer = p /\ t.rid = id
  \/ \E id2 \in DOMAIN pendingRequests[Other(p)] :
       /\ pendingRequests[Other(p)][id2].op = "callback"
       /\ pendingRequests[Other(p)][id2].id = id
\* deadlock: a nested request is all that is under way, and its receiver
\* cannot take it
Stuck ==
  /\ decodes = {}
  /\ \E m \in net : net = {m} /\ IsNested(m) /\ ~ENABLED handleRequest(m)

\* C15: when the owner, while evaluating a request from the requester,
\* invokes a callback that is a proxy for a requester-side function, the
\* nested request is served by the requester while its own outer request is
\* still pending (the requester can always take it); both requests complete
\* (each pending request has a message or an evaluation under way that
\* leads to its answer); and the outer result reflects what the callback
\* returned or threw.
CallbackRoundTrip ==
  /\ []~Stuck
  /\ [](\A p \in Peers : \A id \in DOMAIN pendingRequests[p] : InProgress(p, id))
  /\ [][/\ \A m \in net :
             (Handled(m) /\ IsNested(m)) =>
               /\ Has(pendingRequests[m.to], Outer(m).id)
               /\ Has(pendingRequests'[m.to], Outer(m).id)
               /\ \E r \in Sent : Sent = {r} /\ IsResponse(r) /\ r.id = m.id
        /\ \A r \in net :
             (r \notin net' /\ IsResponse(r) /\ IsCallbackResponse(r)) =>
               LET cont == pendingRequests[r.to][r.id] IN
               /\ ~Has(pendingRequests'[r.to], r.id)
               /\ \E o \in Sent :
                    /\ Sent = {o} /\ IsResponse(o) /\ o.id = cont.id /\ o.to = Other(r.to)
                    /\ IF r.response.type = "error"
                       THEN /\ o.response.type = "error"
                            /\ o.response.message = r.response.message
                       ELSE o.response = Reflected(r)]_vars

\* the holder's call has completed with the object its own callback returned:
\* the owner called the callback, one nested request was made and answered,
\* and nothing is pending any more
CallbackReturned ==
  /\ last.op = "await" /\ last.outcome = "resolved" /\ last.value = Obj(1)
  /\ lastRequestId[Other(last.peer)] = 1
  /\ \A p \in Peers : pendingRequests[p] = EmptyMap
  /\ net = {}


(***************************************************************************)
(* Numeric ids (ObjectStore.#nextRemoteId, #cacheDescription)              *)
(***************************************************************************)
Live(p) == {id \in DOMAIN localObjects[p] : ~IsString(id)}

\* C16: numeric id allocation never returns an id that is a key of the Local
\* Table at that time, also when the counter reaches MAX_SAFE_INTEGER and
\* wraps to MIN_SAFE_INTEGER (the id the counter stops at was free before,
\* and no id that was live is bound to another value); consequently no two
\* live values hold the same numeric id (each value that has a numeric
\* description is the one the table holds under that id).
AllocatedIdIsFree ==
  [][\A p \in Peers :
       /\ lastRemoteId'[p] # lastRemoteId[p] =>
            /\ NumId(lastRemoteId'[p]) \notin Live(p)
            /\ NumId(lastRemoteId'[p]) \in Live(p)'
       /\ \A id \in Live(p) : id \in Live(p)' /\ localObjects'[p][id] = localObjects[p][id]
       /\ \A object \in DOMAIN localObjectsId'[p] :
            ~IsString(localObjectsId'[p][object].id)
              => localObjects'[p][localObjectsId'[p][object].id] = object]_vars

\* the counter has wrapped and passed over an id that was live: the object
\* that held the first id after the wrap still holds it, and the object
\* allocated next has the id after it
WrappedOverLiveId ==
  \E p \in Owners :
    /\ lastRemoteId[p] = 1 - MaxSafeInteger
    /\ Has(localObjects[p], NumId(-MaxSafeInteger))
    /\ localObjects[p][NumId(-MaxSafeInteger)] = Earlier
    /\ Has(localObjects[p], NumId(1 - MaxSafeInteger))
    /\ localObjects[p][NumId(1 - MaxSafeInteger)] > Later
    /\ ops > 0


(***************************************************************************)
(* Garbage collector synchronisation                                       *)
(***************************************************************************)
IsSyncGcRequest(m) == IsRequest(m) /\ m.request.type = "syncGcRequest"
\* the sync requests to q that this step serves
ServedSync(q) == {m \in net \ net' : IsSyncGcRequest(m) /\ m.to = q /\ ~closed[q]}
\* the sync replies this step sends
SyncReplies == {r \in net' \ net : IsResponse(r) /\ r.response.type = "syncGcResponse"}
\* the sync rounds of p that this step completes
Completed(p) ==
  {id \in DOMAIN pendingRequests[p] :
     /\ pendingRequests[p][id].op = "syncGc"
     /\ ~Has(pendingRequests'[p], id)
     /\ last'.outcome = "synced"}
\* q holds the value of the id strongly
HeldByOwner(q, id) ==
  \/ Has(localObjects[q], id)
  \/ \E object \in DOMAIN localObjectsId[q] : localObjectsId[q][object].id = id

InFlight(p) ==
  {id \in DOMAIN pendingRequests[p] : pendingRequests[p][id].op = "syncGc"}
SyncRequestsOf(p, channel) ==
  {m \in channel : IsSyncGcRequest(m) /\ m.to = Other(p)}

\* C21: at most one sync round of a peer is in flight at any time, and a
\* trigger of syncGc (an explicit call or the schedule) that occurs while a
\* round is in flight sends no syncGcRequest and starts no round.
OneRoundInFlight ==
  /\ [](\A p \in Peers : Cardinality(InFlight(p)) <= 1)
  /\ [][\A p \in Peers :
          InFlight(p) # {}
            => /\ SyncRequestsOf(p, net') \subseteq SyncRequestsOf(p, net)
               /\ InFlight(p) \subseteq InFlight(p)' \/ InFlight(p)' = {}
               /\ (last'.op = "syncGc" /\ last'.peer = p /\ last'.outcome # "synced")
                    => /\ last'.outcome = "busy"
                       /\ net' = net /\ pendingRequests' = pendingRequests
                       /\ clock' = clock]_vars

\* syncGc was triggered while the round of the holder was in flight
TriggeredWhileInFlight ==
  /\ last = Did("b", "syncGc", "busy")
  /\ InFlight("b") # {}
  /\ clock < MaxSyncs

\* C22: when the stores are constructed with doNotSyncGc, no syncGcRequest
\* is ever sent, an explicit syncGc() fails with an error and sends nothing,
\* and no id ever leaves a Local Table.
NoSyncWhenDisabled ==
  /\ [](\A p \in Peers : doNotSyncGc[p] => SyncRequestsOf(p, net) = {} /\ InFlight(p) = {})
  /\ [][\A p \in Peers :
          doNotSyncGc[p]
            => /\ DOMAIN localObjects[Other(p)] \subseteq DOMAIN localObjects'[Other(p)]
               /\ (last'.op = "syncGc" /\ last'.peer = p)
                    => /\ last' = Settled(p, "syncGc", "rejected", DisabledError, NoProxy)
                       /\ net' = net /\ pendingRequests' = pendingRequests]_vars

\* syncGc() has failed on a holder constructed with doNotSyncGc, while an id
\* of the owner waits in the cleanup queue of the holder
SyncRefused ==
  /\ doNotSyncGc["b"]
  /\ last = Settled("b", "syncGc", "rejected", DisabledError, NoProxy)
  /\ \E i \in objectsToClean["b"] : Has(localObjects["a"], i)


(***************************************************************************)
(* The requests of a RequestHandler and how they settle.                   *)
(***************************************************************************)
Issued(p) == DOMAIN settles[p]
Pending(p) == DOMAIN pendingRequests[p]
\* the response messages this step delivers to p
Answers(p) == {m \in net \ net' : ~IsRequest(m) /\ m.to = p}

\* C23: a request issued on an open handler is settled at most once, the
\* pending map holds exactly the ids of the requests not settled yet, a
\* settled request stays settled as it was, and a request leaves the map
\* by its response or errorResponse, its timeout, a send failure or close.
\* Every request that is pending settles in the end.
SettlesExactlyOnce ==
  /\ [](\A p \in Peers :
          /\ Pending(p) = {id \in Issued(p) : settles[p][id].n = 0}
          /\ \A id \in Issued(p) : settles[p][id].n <= 1)
  /\ [][\A p \in Peers : \A id \in Issued(p) :
          /\ settles[p][id].n = 1 => id \in Issued(p)' /\ settles'[p][id] = settles[p][id]
          /\ (id \in Pending(p) /\ id \notin Pending(p)')
               => \/ \E m \in Answers(p) : m.id = id
                  \/ last' = Settled(p, pendingRequests[p][id].op, "rejected",
                                     TimeoutError, NoProxy)
                  \/ last' = Settled(p, pendingRequests[p][id].op, "rejected",
                                     SendError, NoProxy)
                  \/ rhClosed'[p] /\ ~rhClosed[p]]_vars
  /\ \A p \in Peers : \A id \in 1..MaxRequests :
       (id \in Pending(p)) ~> (id \in Issued(p) /\ settles[p][id].n = 1)

\* three requests have settled, each in another way: by a timeout, by close
\* and by a response
SettledEachWay ==
  \E i, j, k \in Issued("b") :
    /\ settles["b"][i] = [n |-> 1, reason |-> TimeoutError]
    /\ settles["b"][j] = [n |-> 1, reason |-> ConnectionClosed]
    /\ settles["b"][k] = [n |-> 1, reason |-> ""]

\* C24: a response is matched to a request by its id alone.  When a
\* response or errorResponse arrives whose id is pending, the request with
\* that id is the one that settles, with what the message carries, and every
\* other request stays as it was, in whatever order the responses arrive.
ResponsesCorrelateById ==
  [][\A p \in Peers : \A m \in Answers(p) :
       (~rhClosed[p] /\ m.id \in Pending(p))
         => /\ Pending(p) \ Pending(p)' = {m.id}
            /\ settles'[p][m.id] =
                 [n |-> 1, reason |-> IF IsErrorResponse(m) THEN m.errorResponse ELSE ""]
            /\ \A id \in Issued(p) \ {m.id} : settles'[p][id] = settles[p][id]
            /\ pendingRequests[p][m.id].op = "request"
                 => /\ last'.peer = p /\ last'.op = "request"
                    /\ IsResponse(m) => last'.outcome = "resolved" /\ last'.value = m.response
                    /\ IsErrorResponse(m)
                         => last'.outcome = "rejected" /\ last'.message = m.errorResponse]_vars

\* the response to a later request has resolved that request, while the
\* response to an earlier request is still on its way and differs from it
ResolvedOutOfOrder ==
  \E m \in net : \E j \in Issued("b") :
    /\ IsResponse(m) /\ m.to = "b" /\ m.id \in Pending("b")
    /\ j > m.id /\ settles["b"][j] = [n |-> 1, reason |-> ""]
    /\ last.peer = "b" /\ last.op = "request" /\ last.outcome = "resolved"
    /\ last.value # m.response

\* C25: when the timer of a request fires, the request is rejected with
\* the TimeoutError and its id leaves the pending map, and nothing is sent.
\* A response or errorResponse that arrives at an open handler for an id
\* that is not pending settles no request: it is reported to the error
\* listeners as a response with an invalid id.
TimeoutThenInvalidId ==
  [][\A p \in Peers :
       /\ (last'.peer = p /\ last'.outcome = "rejected" /\ last'.message = TimeoutError)
            => \E id \in Pending(p) :
                 /\ Pending(p)' = Pending(p) \ {id}
                 /\ settles'[p] = [settles[p] EXCEPT ![id] = [n |-> 1, reason |-> TimeoutError]]
                 /\ last'.op = pendingRequests[p][id].op
                 /\ net' = net
       /\ \A m \in Answers(p) :
            (~rhClosed[p] /\ m.id \notin Pending(p))
              => /\ last' = Settled(p, "newMessage", "emitError", InvalidId, NoProxy)
                 /\ pendingRequests' = pendingRequests /\ settles' = settles
                 /\ UNCHANGED cacheVars]_vars

\* the response to a request that had timed out has arrived
LateResponseReported ==
  /\ last = Settled("b", "newMessage", "emitError", InvalidId, NoProxy)
  /\ \E id \in Issued("b") : settles["b"][id] = [n |-> 1, reason |-> TimeoutError]

\* C26: RequestHandler.close rejects every request that is pending at that
\* moment with "Connection was Closed" and leaves the pending map empty, the
\* map of a closed handler stays empty, and a request attempted on a closed
\* handler fails with the closed error: it sends no message and nothing
\* becomes pending.
CloseRejectsPending ==
  /\ [](\A p \in Peers : rhClosed[p] => Pending(p) = {})
  /\ [][\A p \in Peers :
          /\ (rhClosed'[p] /\ ~rhClosed[p])
               => \A id \in Pending(p) :
                    settles'[p][id] = [n |-> 1, reason |-> ConnectionClosed]
          /\ (rhClosed[p] /\ last'.peer = p /\ last'.op = "request")
               => /\ last' = Settled(p, "request", "rejected", ClosedError, NoProxy)
                  /\ net' = net /\ pendingRequests' = pendingRequests
                  /\ settles' = settles]_vars

\* a request was attempted on a handler whose close had rejected a request
RequestAfterClose ==
  /\ last = Settled("b", "request", "rejected", ClosedError, NoProxy)
  /\ rhClosed["b"]
  /\ \E id \in Issued("b") : settles["b"][id] = [n |-> 1, reason |-> ConnectionClosed]


(***************************************************************************)
(* The paths of proxies and of requests.                                   *)
(***************************************************************************)
SetSegments(path) == {k \in DOMAIN path : path[k].type = "set"}

\* C27: the path of a proxy never contains a set segment, and a request
\* that is sent contains at most one set segment, which is the last segment
\* of its path.
PathsWellFormed ==
  /\ [](\A p \in Peers : SetSegments(cur[p].path) = {})
  /\ [][\A m \in RequestsSent :
          m.request.type = "remote"
            => SetSegments(m.request.path) \subseteq {Len(m.request.path)}]_vars

\* a request that sets a property of a property was sent, and the proxy the
\* set function was taken from still has its path of get segments
SetRequestSent ==
  /\ last = Did("b", "set", "sent")
  /\ Len(cur["b"].path) = 2
  /\ \E m \in net :
       /\ IsRequest(m) /\ m.request.type = "remote" /\ m.to = "a"
       /\ SetSegments(m.request.path) = {2}


(***************************************************************************)
(* Requests that reach a closed peer.                                      *)
(***************************************************************************)
\* C28: a request that is delivered to a peer that has closed is answered
\* with the closed-store error: the step that takes the request from the
\* channel puts an errorResponse with its id and that error into it.
ClosedPeerAnswers ==
  [][\A m \in net \ net' :
       (IsRequest(m) /\ closed[m.to])
         => \E r \in net' \ net :
              /\ r.to = Other(m.to) /\ r.id = m.id
              /\ IsErrorResponse(r) /\ r.errorResponse = ClosedError]_vars


(***************************************************************************)
(* The cleanup queue and the ids in use.                                   *)
(***************************************************************************)
\* C29: a numeric id for which the Remote Table of a peer holds a live proxy
\* is not in the cleanup queue of that peer.
FreshUseCancelsRelease ==
  \A p \in Peers : \A i \in DOMAIN remoteObjects[p] :
    (~IsString(i) /\ IsCached(p, i)) => i \notin objectsToClean[p]


(***************************************************************************)
(* Arguments of call and construct expressions.                            *)
(***************************************************************************)
\* C30: a call or construct expression on a proxy leaves the Local Table of
\* the caller as it was: the arguments are encoded, and registered in the
\* Local Table, only by the step that sends the request.
ArgumentsEncodedWhenSent ==
  [][\A p \in Peers :
       (DOMAIN localObjects'[p] # DOMAIN localObjects[p] /\ last'.peer = p)
         => last'.op \notin {"apply", "construct"}]_vars

(***************************************************************************)
(* The evaluation of a path (ObjectStore.#resolveRemoteValue)              *)
(***************************************************************************)
\* the request message that the step has served, if it has served one
ServedRequests == {m \in net \ net' : IsRequest(m) /\ m.request.type = "remote"
                                       /\ last'.op = "requestHandler"
                                       /\ last'.peer = m.to}

\* C31: whenever a request is served, every function that a call segment
\* invokes gets as receiver the value the get segment just before it was
\* performed on, and undefined when the segment before it is no get (the call
\* is the first segment, or follows a call or a new).
ReceiverIsRetainedParent ==
  [][\A m \in ServedRequests :
       \A j \in DOMAIN last'.steps :
         LET c == last'.steps[j]
             path == m.request.path
         IN c.type = "call" =>
              IF c.at > 1 /\ path[c.at - 1].type = "get"
              THEN /\ last'.steps[j - 1].at = c.at - 1
                   /\ c.this = last'.steps[j - 1].on
              ELSE c.this = Undefined]_vars

\* a request was served that called a method on its object and then called
\* what the method returned
MethodThenResultCalled ==
  /\ last.op = "requestHandler"
  /\ \E i, j \in DOMAIN last.steps :
       /\ last.steps[i].type = "call" /\ last.steps[i].this.t = "obj"
       /\ j > 1 /\ last.steps[j].type = "call" /\ last.steps[j].this = Undefined
       /\ last.steps[j - 1].type \in {"call", "new"}

\* C32: a request that is served without an error returns the value its last
\* segment produced: the property read for a get, what the user function
\* returned for a call or a new, undefined for a set; and the root for an
\* empty path.
ReturnsValueOfLastSegment ==
  [][\A m \in ServedRequests :
       last'.outcome = "value" =>
         LET path == m.request.path
             n == Len(path)
             root == Obj(localObjects[m.to][m.request.root])
             s == last'.steps[Len(last'.steps)]
         IN IF n = 0 THEN last'.value = root
            ELSE /\ last'.steps # <<>>
                 /\ s.at = n /\ s.type = path[n].type
                 /\ last'.value = CASE s.type = "set" -> Undefined
                                    [] s.type = "get" -> GetProp(props[m.to], s.on, path[n].name)
                                    [] s.type \in {"call", "new"} -> s.produced]_vars

\* a request with several segments was served, and what it returned is
\* neither undefined nor the root
ReturnedOtherThanRoot ==
  /\ last.op = "requestHandler" /\ last.outcome = "value"
  /\ Len(last.steps) > 1
  /\ last.steps[1].at = 1
  /\ last.value \notin {Undefined, last.steps[1].on}

(***************************************************************************)
(* The descriptions of the Local Table (ObjectStore.#cacheDescription,     *)
(* exposeRemoteObject)                                                     *)
(***************************************************************************)
\* C33: once a value has a description, encoding the value returns that
\* description ever after: no step replaces the description that
\* #cacheDescription finds for a value.
DescriptionsAreStable ==
  [][\A p \in Peers : \A value \in DOMAIN localObjectsId[p] :
       /\ Has(localObjectsId'[p], value)
       /\ localObjectsId'[p][value] = localObjectsId[p][value]]_vars

(***************************************************************************)
(* The finalization of proxies (FinalizationRegistry callback,             *)
(* ObjectStore.#cleanupObject)                                             *)
(***************************************************************************)
\* the proxies whose finalization callback runs in the step
Finalized(p) ==
  IF last'.op = "finalize" /\ last'.peer = p THEN finalizable[p] \ finalizable'[p] ELSE {}

\* C34: the finalization callback of a proxy for a numeric id removes the id
\* from the Remote Table of its peer and adds it to the peer's cleanup queue,
\* and nothing else: no message is sent, no request is issued and the tables
\* of the other peer stay as they are; and #cleanupObject of a string id
\* leaves the Remote Table and the queue as they are.
FinalizationIsLocal ==
  /\ [](\A p \in Peers, name \in Names :
          cleanupObject(RemoteTable(p), StrId(name)) = RemoteTable(p))
  /\ [][\A p \in Peers : \A x \in Finalized(p) :
          /\ ~IsString(x.id)
          /\ remoteObjects' = [remoteObjects EXCEPT ![p] = Del(@, x.id)]
          /\ objectsToClean' = [objectsToClean EXCEPT ![p] = @ \cup {x.id}]
          /\ net' = net
          /\ pendingRequests' = pendingRequests
          /\ localObjects' = localObjects
          /\ localObjectsId' = localObjectsId
          /\ lastRemoteId' = lastRemoteId
          /\ keepStringIds' = keepStringIds]_vars

\* the callback has run for a proxy whose owner still has the object in its
\* Local Table, while a proxy for a name is cached
FinalizedWhileOwnerHolds ==
  /\ last.op = "finalize"
  /\ \E id \in objectsToClean[last.peer] :
       /\ ~Has(remoteObjects[last.peer], id)
       /\ Has(localObjects[Other(last.peer)], id)
  /\ keepStringIds[last.peer] # EmptyMap

(***************************************************************************)
(* `key in proxy` on a bound proxy (#getObjectDescription, the has and     *)
(* getPrototypeOf traps of #createRemoteObject)                            *)
(***************************************************************************)
\* what the has trap answered in the step that has just been taken
Answered == last.outcome = "true"
\* the object and its prototypes
RECURSIVE Chain(_)
Chain(object) == {object} \cup UNION {Chain(proto) : proto \in shapes[object].proto}

\* the prototype a bound proxy reports is null unless the policy is "full"
NullPrototypes ==
  remoteObjectPrototype # "full" =>
    \A object \in DOMAIN shapeDescriptions : shapeDescriptions[object].prototype = {}

Taken == net \ net'
\* the RequestHandler that receives m is open and cannot serve it
Unservable(m) ==
  /\ IsRequest(m) /\ ~rhClosed[m.to]
  /\ ~requestHandlerSet[m.to] \/ m.request.type = "malformed"

\* C36: a request that reaches an open RequestHandler whose requestHandler
\* is not set or throws is answered with an errorResponse of the id of the
\* request, and the RequestHandler stays open; the errorResponse rejects the
\* request of that id with its text; and a request the handler can serve is
\* answered with a response, whatever failed before.
FailedRequestIsAnswered ==
  /\ [](\A p \in Owners : ~rhClosed[p] /\ ~closed[p])
  /\ [][\A m \in Taken :
          /\ Unservable(m) =>
               ErrorResponseMessage(Other(m.to), m.id,
                  IF requestHandlerSet[m.to] THEN NotAMessage ELSE NoHandler) \in net'
          /\ (IsRequest(m) /\ ~Unservable(m) /\ ~rhClosed[m.to]) =>
               \E r \in net' \ net : IsResponse(r) /\ r.id = m.id /\ r.to = Other(m.to)
          /\ (IsErrorResponse(m) /\ Has(pendingRequests[m.to], m.id)) =>
               /\ settles'[m.to][m.id] = [n |-> 1, reason |-> m.errorResponse]
               /\ ~Has(pendingRequests'[m.to], m.id)
               /\ last'.outcome = "rejected" /\ last'.message = m.errorResponse]_vars

\* the owner has served a request after a request it could not serve was
\* rejected with the text of the errorResponse
ServedAfterFailedRequest ==
  /\ last.peer \in Owners /\ last.op = "requestHandler" /\ last.outcome \in {"value", "throw"}
  /\ \E p \in Holders : \E id \in DOMAIN settles[p] :
       settles[p][id] = [n |-> 1, reason |-> NotAMessage]

(***************************************************************************)
(* SpecCounter: request ids while the counter of the RequestHandler is     *)
(* moved, as the tests move it with setTestable(rh, "#lastRequestId", n):  *)
(* to just before the wrap, and back to a number whose successors are ids  *)
(* of requests that are still pending.                                     *)
(***************************************************************************)
setTestable(p, value) ==
  /\ UserOp
  /\ lastRequestId[p] # value
  /\ lastRequestId' = [lastRequestId EXCEPT ![p] = value]
  /\ last' = Did(p, "setTestable", "ok")
  /\ UNCHANGED <<userVars, closeVars, rhClosed, pendingRequests, net, settles>>

NextCounter ==
  \/ \E p \in Owners : exposeRemoteObject(p, "x", 2)
  \/ \E p \in Holders : RequestHandler_request(p, "x")
  \/ \E p \in Holders : \E value \in Counters : setTestable(p, value)
  \/ \E m \in net : newMessage(m)

SpecCounter == Init /\ [][NextCounter]_vars

\* the request messages this step hands to sendMessage for p
Requested(p) == {m \in net' \ net : IsRequest(m) /\ m.to = Other(p)}

(***************************************************************************)
(* C37: a request is sent under an id that no pending request of the       *)
(* sender has, wherever the counter stood: the id the allocation returns   *)
(* is a safe integer that was not a key of the pending-request map, and    *)
(* the map gains exactly that key, so every request that was pending is    *)
(* still pending under its own id.                                         *)
(***************************************************************************)
RequestIdIsFree ==
  [][\A p \in Peers : \A m \in Requested(p) :
       /\ m.id = lastRequestId'[p]
       /\ m.id >= -MaxSafeInteger /\ m.id < MaxSafeInteger
       /\ m.id \notin Pending(p)
       /\ DOMAIN pendingRequests'[p] = Pending(p) \cup {m.id}
       /\ \A id \in Pending(p) : pendingRequests'[p][id] = pendingRequests[p][id]]_vars

\* Four operations and nothing exposed leave one way to have issued exactly
\* the ids MAX_SAFE_INTEGER - 1 and MIN_SAFE_INTEGER with both pending: the
\* counter was set to MAX_SAFE_INTEGER - 2, a request took the next id, the
\* counter was set back while that request was pending, and the allocation
\* of the second request passed over the pending id and wrapped.
PassedOverPendingId ==
  /\ \E p \in Holders :
       /\ Issued(p) = {MaxSafeInteger - 1, -MaxSafeInteger}
       /\ Pending(p) = Issued(p)
       /\ lastRequestId[p] = -MaxSafeInteger
  /\ ops = 4
  /\ \A p \in Owners : localObjects[p] = EmptyMap

\* the targets whose finalization callback runs in this step
Finalizing(p) == finalizable[p] \ finalizable'[p]

(***************************************************************************)
(* C38: a finalization callback that runs for a reclaimed proxy of id i    *)
(* after another proxy was installed under i, and while that proxy is not  *)
(* reclaimed, leaves the entry of i in the Remote Table as it is.          *)
(***************************************************************************)
LateFinalizationKeepsNewerProxy ==
  [][\A p \in Peers : \A x \in Finalizing(p) :
       (/\ Has(remoteObjects[p], x.id)
        /\ remoteObjects[p][x.id] # x
        /\ remoteObjects[p][x.id] \notin collected[p])
       => /\ Has(remoteObjects'[p], x.id)
          /\ remoteObjects'[p][x.id] = remoteObjects[p][x.id]]_vars

(***************************************************************************)
(* C39: the Local Table is injective and agrees with its reverse map: no   *)
(* value is registered under two ids, and the cached description of the    *)
(* value of every entry carries the id of the entry.                       *)
(***************************************************************************)
LocalTableIsInjective ==
  \A p \in Peers : \A id \in DOMAIN localObjects[p] :
    /\ \A other \in DOMAIN localObjects[p] :
         localObjects[p][other] = localObjects[p][id] => other = id
    /\ Has(localObjectsId[p], localObjects[p][id])
    /\ localObjectsId[p][localObjects[p][id]].id = id

(***************************************************************************)
(* SpecAwait: the user program of the holder awaits unbound proxies of a   *)
(* value the owner has exposed, and awaits the bound proxies that these    *)
(* awaits gave it.                                                         *)
(***************************************************************************)
Exposed == [id \in {StrId("x")} |-> 1]

InitAwait ==
  /\ localObjects = [p \in Peers |-> IF p \in Owners THEN Exposed ELSE EmptyMap]
  /\ localObjectsId = [p \in Peers |-> IF p \in Owners THEN Descriptions(Exposed)
                                         ELSE EmptyMap]
  /\ lastRemoteId = [p \in Peers |-> 0]
  /\ nextObj = [p \in Peers |-> NumObjs + 1]
  /\ InitOther
  /\ InitOptions
  /\ InitShapes

NextAwait ==
  \/ \E p \in Holders : \E path \in AwaitedPaths :
       await(p, RemoteData(StrId("x"), path), TRUE, NoProxy)
  \/ \E p \in Holders : \E x \in held[p] : await(p, RemoteData(x.id, <<>>), FALSE, x)
  \/ Delivery

SpecAwait == InitAwait /\ [][NextAwait]_vars

(***************************************************************************)
(* C40: awaiting a bound proxy (the proxy an earlier await resolved to)    *)
(* sends no request and yields that proxy: the step changes neither the    *)
(* messages in flight nor the pending requests nor the request counter,    *)
(* and the await is resolved with the proxy itself.  And the step that     *)
(* resolves an await with a proxy sends no request either.                 *)
(***************************************************************************)
BoundProxyIsNotThenable ==
  [][\A p \in Holders :
       /\ \A x \in held[p] :
            await(p, RemoteData(x.id, <<>>), FALSE, x)
            => /\ net' = net
               /\ pendingRequests' = pendingRequests
               /\ lastRequestId' = lastRequestId
               /\ last'.outcome = "resolved"
               /\ last'.proxy = x
       /\ (last'.peer = p /\ last'.op = "await" /\ last'.outcome = "resolved"
           /\ last'.proxy # NoProxy)
          => Requested(p) = {}]_vars

\* Two awaits and one request: the first await was resolved with a proxy by
\* the response to its request, the second await was of that proxy and was
\* resolved with it at once.
AwaitedBoundProxy ==
  \E p \in Holders :
    /\ ops = 2
    /\ Cardinality(Issued(p)) = 1
    /\ Pending(p) = {}
    /\ last.peer = p /\ last.op = "await" /\ last.outcome = "resolved"
    /\ last.proxy \in held[p]

====
